---------------------------- MODULE Spec2Model ----------------------------
(***************************************************************************)
(* The ingestion pipeline of localGPT (components/ingest.py) and the       *)
(* service in front of it (server/ingest/service.py).                      *)
(*                                                                         *)
(* One ingest component is built at start-up (get_ingestion_component):    *)
(* SimpleIngestComponent, BatchIngestComponent or                          *)
(* ParallelizedIngestComponent.  All three share, through                  *)
(* BaseIngestComponentWithIndex, one index and one threading.Lock.         *)
(* Caller threads (the HTTP layer's worker threads) run ingest,            *)
(* bulk_ingest and delete; the Parallelized component also owns a thread   *)
(* pool whose threads run self.ingest for the files of a bulk_ingest.      *)
(*                                                                         *)
(* The component drives the llama_index 0.9 API it imports                 *)
(* (index.insert, index.insert_nodes, docstore.set_document_hash,          *)
(* index.delete_ref_doc, storage_context.persist, run_transformations) and *)
(* multiprocessing's Pool.starmap / Pool.apply.  Each call is modelled at  *)
(* its call site by what that library call does to the document store:     *)
(*   - run_transformations(documents, [node_parser, embed_model]) returns  *)
(*     the nodes of the documents in order; the node parser links each     *)
(*     node of the returned list to its predecessor and successor in that  *)
(*     list (include_prev_next_rel);                                       *)
(*   - insert_nodes adds the nodes one by one to the document store; each  *)
(*     add also appends the node id to the ref-doc entry of its document;  *)
(*   - index.insert(document) is run_transformations([document]) followed  *)
(*     by insert_nodes and set_document_hash;                              *)
(*   - delete_ref_doc(doc_id, delete_from_docstore=True) removes the nodes *)
(*     listed in the document's ref-doc entry, then the entry and the      *)
(*     document's hash; for an unknown doc_id it returns without raising   *)
(*     (the docstore is called with raise_error=False);                    *)
(*   - Pool.starmap returns its results by input position; when a task     *)
(*     raises, starmap waits for the other tasks and re-raises.            *)
(*                                                                         *)
(* The chunks service (server/chunks/service.py) reads the same document   *)
(* store (node_store_component.doc_store) and the same vector store:       *)
(*   - insert_nodes adds the nodes of a call to the vector store before it *)
(*     adds them to the document store; delete_ref_doc removes a           *)
(*     document's nodes from the vector store first;                       *)
(*   - the retriever returns the similarity_top_k nearest nodes as the     *)
(*     vector store holds them (text, metadata and links included);        *)
(*   - docstore.get_node raises ValueError for an id it does not hold.     *)
(*                                                                         *)
(* Specifications: Spec (calls that succeed), SpecFail (a step of a call   *)
(* fails), SpecLife (the constructor, then Spec), SpecLoad (SpecLife over  *)
(* restarts of the process), SpecShut (Spec until the component is         *)
(* destroyed), SpecQuery (retrieve_relevant on a store at rest),           *)
(* SpecChunks (retrieve_relevant concurrent with ingest and delete),       *)
(* SpecList (list_ingested on a store at rest), SpecCurate                 *)
(* (curate_metadata), SpecExtract (transform_file_to_documents),           *)
(* SpecAgain (Spec with files ingested a second time), SpecEmpty (Spec     *)
(* with a file without text), SpecReport (SpecList and from_document),     *)
(* SpecIngestData (_ingest_data and its temporary file) and SpecParallel   *)
(* (the parallelized component with its process pool).                     *)
(***************************************************************************)
EXTENDS Integers, Sequences, FiniteSets, TLC

(* ------------------------------ bounds -------------------------------- *)

\* Operations (ingest, bulk_ingest, delete) started in one behaviour.
MaxOps == 2

\* Caller threads that may be inside the component at the same time.
Callers == {1, 2}

\* Threads of ParallelizedIngestComponent._ingest_work_pool; the first
\* countWorkers of them exist.
PoolThreads == {3, 4}

Threads == Callers \cup PoolThreads

\* What a file extracts to: one entry per Document, the entry being the
\* number of nodes (sentences) the node parser cuts the Document into.
FileKinds == {<<1>>, <<2>>, <<3>>, <<1, 1>>}

\* The files given to ingest.
IngestInputs == {<<2>>, <<1, 1>>}

\* The file lists given to bulk_ingest.
BulkInputs == {<< <<3>>, <<1>> >>, << <<1, 1>>, <<2>> >>}

NoThread == 0
NoNode == <<>>
\* A doc_id that no extraction ever produced.
AbsentDoc == <<0, 0, 0>>

VARIABLES
    mode,         \* settings.embedding.ingest_mode: "simple", "batch", "parallel"
    countWorkers, \* settings.embedding.count_workers
    lock,         \* _index_thread_lock: the thread holding it, or NoThread
    mem,          \* the in-memory document store of self._index
    disk,         \* the snapshot written by storage_context.persist
    th,           \* per thread: position and local variables
    queue,        \* tasks of _ingest_work_pool not yet taken by a pool thread
    nextOp,       \* number of the next operation started
    unsaved,      \* threads whose store mutation no persist has followed yet
    built,        \* how far the constructor of the component has come
    pools,        \* the worker pools created so far, in order of creation
    vstore,       \* the vector store: the nodes added to it (its payloads)
    rd,           \* the thread serving ChunksService.retrieve_relevant
    helper        \* a call of a helper or of a reading service method

\* What the constructor fixes.
component == <<mode, countWorkers, built, pools>>

vars == <<component, lock, mem, vstore, disk, th, queue, nextOp, unsaved, rd,
          helper>>

(* ------------------------- the document store -------------------------- *)

\* The stores of the storage context once the index exists and nothing has
\* been ingested.
EmptyStore ==
    [nodes   |-> << >>,   \* node_id -> [ref, prev, next, metadata]
     order   |-> << >>,   \* node ids in insertion order (docstore.docs)
     refDocs |-> << >>,   \* doc_id -> node ids (ref_doc_info.node_ids)
     refMeta |-> << >>,   \* doc_id -> ref_doc_info.metadata
     hashes  |-> << >>,   \* doc_id -> document hash
     indexes |-> 1]       \* number of index structs in the index store

\* The stores before any index has been created.
NoStores == [EmptyStore EXCEPT !.indexes = 0]

Without(f, k) == [x \in (DOMAIN f) \ {k} |-> f[x]]

Put(f, k, v) == [x \in (DOMAIN f) \cup {k} |-> IF x = k THEN v ELSE f[x]]

RECURSIVE Flatten(_)
Flatten(ss) == IF ss = << >> THEN << >> ELSE Head(ss) \o Flatten(Tail(ss))

\* node.relationships as the document store keeps them: an entry under "1"
\* (SOURCE), and under "2" (PREVIOUS) and "3" (NEXT) when the node has such a
\* neighbour.
Relationships(node) ==
    {<<"1", node.ref>>}
        \cup (IF node.prev = NoNode THEN {} ELSE {<<"2", node.prev>>})
        \cup (IF node.next = NoNode THEN {} ELSE {<<"3", node.next>>})

Related(relationships, kind) ==
    IF \E r \in relationships : r[1] = kind
    THEN (CHOOSE r \in relationships : r[1] = kind)[2]
    ELSE NoNode

\* A persist that writes the nodes without their PREVIOUS and NEXT
\* relationships, for comparison.
ToJsonNoLinks(store) ==
    [docstore_data |->
        [p \in 1..Len(store.order) |->
            <<store.order[p],
              [relationships |-> {<<"1", store.nodes[store.order[p]].ref>>},
               metadata |-> store.nodes[store.order[p]].metadata]>>],
     docstore_ref_doc_info |->
        {<<d, [node_ids |-> store.refDocs[d], metadata |-> store.refMeta[d]]>> :
            d \in DOMAIN store.refDocs},
     docstore_metadata |->
        {<<d, [doc_hash |-> store.hashes[d]]>> : d \in DOMAIN store.hashes},
     index_store_data |-> store.indexes]

\* What storage_context.persist(persist_dir) writes: docstore.json with the
\* collections docstore/data (one entry per node, in the order of the
\* dictionary), docstore/ref_doc_info and docstore/metadata (the hashes), and
\* index_store.json with one entry per index struct.
ToJson(store) ==
    [docstore_data |->
        [p \in 1..Len(store.order) |->
            <<store.order[p],
              [relationships |-> Relationships(store.nodes[store.order[p]]),
               metadata |-> store.nodes[store.order[p]].metadata]>>],
     docstore_ref_doc_info |->
        {<<d, [node_ids |-> store.refDocs[d], metadata |-> store.refMeta[d]]>> :
            d \in DOMAIN store.refDocs},
     docstore_metadata |->
        {<<d, [doc_hash |-> store.hashes[d]]>> : d \in DOMAIN store.hashes},
     index_store_data |-> store.indexes]

\* No persist_dir yet: nothing to read.
NoSnapshot == ToJson(NoStores)

\* The stores read back from a snapshot (from_persist_dir).
FromJson(json) ==
    LET data == json.docstore_data
        Entry(id) == data[CHOOSE p \in 1..Len(data) : data[p][1] = id][2]
        Value(pairs, k) == (CHOOSE e \in pairs : e[1] = k)[2]
    IN  [nodes   |-> [id \in {data[p][1] : p \in 1..Len(data)} |->
                        [ref      |-> Related(Entry(id).relationships, "1"),
                         prev     |-> Related(Entry(id).relationships, "2"),
                         next     |-> Related(Entry(id).relationships, "3"),
                         metadata |-> Entry(id).metadata]],
         order   |-> [p \in 1..Len(data) |-> data[p][1]],
         refDocs |-> [d \in {e[1] : e \in json.docstore_ref_doc_info} |->
                        Value(json.docstore_ref_doc_info, d).node_ids],
         refMeta |-> [d \in {e[1] : e \in json.docstore_ref_doc_info} |->
                        Value(json.docstore_ref_doc_info, d).metadata],
         hashes  |-> [d \in {e[1] : e \in json.docstore_metadata} |->
                        Value(json.docstore_metadata, d).doc_hash],
         indexes |-> json.index_store_data]

\* The doc_id a node id was cut from, and the file a doc_id was read from.
DocOfNode(n) == <<n[1], n[2], n[3]>>
FileOfNode(n) == <<n[1], n[2]>>


(* ------------------- extraction and transformation --------------------- *)

\* transform_file_to_documents sets metadata["file_name"]; _exclude_metadata
\* sets metadata["doc_id"] = document.doc_id.
DocumentMetadata(file, docId) == [file_name |-> file, doc_id |-> docId]

\* Readers that do not give every Document an id of its own, for comparison:
\* the ids of two calls collide.
TransformFileToDocumentsSameIds(opId, fileIdx, kind) ==
    [j \in 1..Len(kind) |->
        [id |-> <<1, fileIdx, j>>, n |-> kind[j], load |-> 1,
         metadata |-> DocumentMetadata(<<opId, fileIdx>>, <<1, fileIdx, j>>)]]

\* IngestionHelper.transform_file_to_documents: the reader returns one
\* Document per entry of the file, each with a fresh doc_id (a uuid; here the
\* operation number, the position of the file in the call and the position
\* of the Document in the file).  load tells the Document objects of two
\* loads apart: 1 unless a reader gives the Document the doc_id of a
\* Document it returned before.
TransformFileToDocuments(opId, fileIdx, kind) ==
    [j \in 1..Len(kind) |->
        [id |-> <<opId, fileIdx, j>>, n |-> kind[j], load |-> 1,
         metadata |-> DocumentMetadata(<<opId, fileIdx>>, <<opId, fileIdx, j>>)]]

\* The Documents of a reader that derives the doc_id from the file, when the
\* file is loaded again: new objects with the doc_ids of the first load.
Reload(documents) ==
    [d \in 1..Len(documents) |-> [documents[d] EXCEPT !.load = 2]]

\* Document.hash: derived from the Document's text and metadata (the
\* metadata holds the doc_id, see _exclude_metadata).
Hash(doc) == <<"sha256", doc.id, doc.n>>

\* The node parser gives every node it cuts a fresh id (a uuid; here the
\* doc_id and the position of the node among the nodes cut from Documents
\* with that doc_id).
NodeIds(documents) ==
    Flatten([d \in 1..Len(documents) |->
                [k \in 1..documents[d].n |->
                    documents[d].id \o <<(documents[d].load - 1) * documents[d].n + k>>]])

\* The text of a node (node.get_content()): its sentence.
Content(nodeId) == <<"sentence", nodeId>>

\* SentenceWindowNodeParser (IngestService.__init__): a node carries the
\* metadata of its document plus "window" (the sentences around it) and
\* "original_text" (its own sentence).
NodeMetadata(docMetadata, nodeId) ==
    [k \in (DOMAIN docMetadata) \cup {"window", "original_text"} |->
        CASE k = "window" -> <<"window", nodeId>>
          [] k = "original_text" -> Content(nodeId)
          [] OTHER -> docMetadata[k]]

\* run_transformations(documents, [node_parser, embed_model]): the nodes of
\* the documents, in document order and in sentence order within a document;
\* every node is linked to its neighbours in the returned list.
RunTransformations(documents) ==
    LET ids == NodeIds(documents)
        owner == Flatten([d \in 1..Len(documents) |->
                            [k \in 1..documents[d].n |-> d]])
    IN  [p \in 1..Len(ids) |->
            [id   |-> ids[p],
             ref  |-> DocOfNode(ids[p]),
             prev |-> IF p > 1 THEN ids[p - 1] ELSE NoNode,
             next |-> IF p < Len(ids) THEN ids[p + 1] ELSE NoNode,
             metadata |-> NodeMetadata(documents[owner[p]].metadata, ids[p])]]

\* Pool.starmap(...) followed by itertools.chain.from_iterable: the results
\* are stored by input position (MapResult._set), so the chained list is in
\* input order whatever order the tasks completed in.
CollectCompletionOrder(results, completed) ==
    Flatten([p \in 1..Len(completed) |-> results[completed[p]]])

Collect(results, completed) ==
    Flatten([p \in 1..Len(results) |-> results[p]])

(* ------------------------------ threads -------------------------------- *)

\* The exceptions of the readers and of the embedding model pass through
\* the component unchanged: stage is "extract" or "embed", file the position
\* in files of the file the exception itself names, NoFile if it names none.
NoFile == 0
NoError == [stage |-> "none", file |-> NoFile]

Idle ==
    [pc        |-> "idle",
     kind      |-> "none",   \* "ingest", "bulk", "delete", "task"
     id        |-> 0,        \* operation number
     owner     |-> NoThread, \* for a pool task: the caller of bulk_ingest
     files     |-> << >>,    \* the files of the call
     fi        |-> 0,        \* position of the file being ingested
     docs      |-> << >>,    \* documents
     di        |-> 0,        \* position in the loop over documents
     todo      |-> << >>,    \* nodes still to insert / node ids still to delete
     target    |-> AbsentDoc,\* delete: doc_id
     found     |-> FALSE,    \* delete: the docstore had a ref-doc entry
     results   |-> << >>,    \* starmap: results by input position
     completed |-> << >>,    \* starmap: positions in order of completion
     ret       |-> << >>,    \* the returned documents
     failed    |-> {},       \* bulk_ingest: positions of the files that failed
     acquired  |-> 0,        \* times the call entered the with block
     again     |-> FALSE,    \* the reader repeats the doc_ids of an earlier load
     error     |-> NoError,  \* the exception the call or a pool task raised
     outcome   |-> "none"]   \* "returned" or "raised" once the call has ended

\* The pools a constructed component owns: none (simple),
\* _file_to_documents_work_pool (batch), _ingest_work_pool and
\* _file_to_documents_work_pool (parallel).
\* calls: the shutdown methods (close, join, terminate) called on the pool.
PoolsOf(m, workers) ==
    CASE m = "batch" ->
            <<[name |-> "_file_to_documents_work_pool", processes |-> workers,
               calls |-> << >>]>>
      [] m = "parallel" ->
            <<[name |-> "_ingest_work_pool", processes |-> workers,
               calls |-> << >>],
              [name |-> "_file_to_documents_work_pool", processes |-> workers,
               calls |-> << >>]>>
      [] OTHER -> << >>

\* No retrieve_relevant request has been made.
NoRequest ==
    [pc       |-> "idle",
     q        |-> << >>,    \* text: the sentence the query is nearest to
     limit    |-> 0,        \* similarity_top_k
     n        |-> 0,        \* prev_next_chunks
     hits     |-> << >>,    \* nodes: the hits, sorted by score
     hi       |-> 0,        \* position in the loop over the hits
     forward  |-> FALSE,    \* direction of the sibling walk
     current  |-> NoNode,   \* current_node of the walk
     left     |-> 0,        \* iterations of the walk still to run
     texts    |-> << >>,    \* explored_nodes_texts
     previous |-> << >>,    \* chunk.previous_texts of the current hit
     chunks   |-> << >>,    \* retrieved_nodes
     outcome  |-> "none"]   \* "returned", or "raised" by docstore.get_node

\* No helper call is under way.
NoCall == [name |-> "none", input |-> << >>, arg |-> << >>, output |-> << >>,
           first |-> << >>, calls |-> 0]

ActivePool == {w \in PoolThreads : Cardinality({v \in PoolThreads : v <= w}) <= countWorkers}

Init ==
    /\ mode \in {"simple", "batch", "parallel"}
    /\ countWorkers \in 1..Cardinality(PoolThreads)
    /\ (mode = "simple" => countWorkers = 1)
    /\ lock = NoThread
    /\ mem = EmptyStore
    /\ disk = ToJson(EmptyStore)
    /\ th = [t \in Threads |-> Idle]
    /\ queue = << >>
    /\ nextOp = 1
    /\ unsaved = {}
    /\ built = "built"
    /\ pools = PoolsOf(mode, countWorkers)
    /\ vstore = {}
    /\ rd = NoRequest
    /\ helper = NoCall

Set(t, r) == th' = [th EXCEPT ![t] = r]

\* A caller thread is free before its first call and after a call returned
\* (it then still shows what the call returned).  A request is served by the
\* first free caller thread, a pool task by the first free pool thread.
Free(t) == th[t].pc \in {"idle", "done"}

Dispatch(t, among) == Free(t) /\ \A u \in among : u < t => ~Free(u)

\* ingest(file_name, file_data), called by IngestService.ingest_file.
CallIngest(c, f) ==
    /\ Dispatch(c, Callers)
    /\ nextOp <= MaxOps
    /\ Set(c, [Idle EXCEPT !.pc = "extract", !.kind = "ingest", !.id = nextOp,
                           !.files = <<f>>, !.fi = 1])
    /\ nextOp' = nextOp + 1
    /\ UNCHANGED <<component, helper, rd, lock, mem, vstore, disk, queue, unsaved>>

\* bulk_ingest(files), called by IngestService.bulk_ingest.
\*   simple:   loops over the files in the caller's thread;
\*   batch:    _file_to_documents_work_pool.starmap(transform_file_to_documents);
\*   parallel: _ingest_work_pool.starmap(self.ingest, files).
CallBulk(c, fs) ==
    /\ Dispatch(c, Callers)
    /\ nextOp <= MaxOps
    /\ LET r == [Idle EXCEPT !.kind = "bulk", !.id = nextOp, !.files = fs,
                             !.results = [i \in 1..Len(fs) |-> << >>]]
       IN  CASE mode = "simple" ->
                  /\ Set(c, [r EXCEPT !.pc = "extract", !.fi = 1])
                  /\ UNCHANGED queue
            []  mode = "batch" ->
                  /\ Set(c, [r EXCEPT !.pc = "pool_extract"])
                  /\ UNCHANGED queue
            []  OTHER ->
                  /\ Set(c, [r EXCEPT !.pc = "bulk_wait"])
                  /\ queue' = queue \o
                        [i \in 1..Len(fs) |-> [owner |-> c, id |-> nextOp, fi |-> i]]
    /\ nextOp' = nextOp + 1
    /\ UNCHANGED <<component, helper, rd, lock, mem, vstore, disk, unsaved>>

\* delete(doc_id), called by IngestService.delete.
CallDelete(c, d) ==
    /\ Dispatch(c, Callers)
    /\ nextOp <= MaxOps
    /\ Set(c, [Idle EXCEPT !.pc = "lock", !.kind = "delete", !.id = nextOp,
                           !.target = d])
    /\ nextOp' = nextOp + 1
    /\ UNCHANGED <<component, helper, rd, lock, mem, vstore, disk, queue, unsaved>>

\* A thread of _ingest_work_pool takes the next task: self.ingest(*files[i]).
TakeTask(w) ==
    /\ mode = "parallel"
    /\ w \in ActivePool
    /\ Dispatch(w, ActivePool)
    /\ queue # << >>
    /\ LET task == Head(queue)
       IN  Set(w, [Idle EXCEPT !.pc = "extract", !.kind = "task", !.id = task.id,
                               !.owner = task.owner,
                               !.again = th[task.owner].again,
                               !.files = th[task.owner].files, !.fi = task.fi])
    /\ queue' = Tail(queue)
    /\ UNCHANGED <<component, helper, rd, lock, mem, vstore, disk, nextOp, unsaved>>

\* documents = transform_file_to_documents(file_name, file_data), in the
\* caller's thread (simple, batch) or through
\* _file_to_documents_work_pool.apply (parallel).
Extract(t) ==
    /\ th[t].pc = "extract"
    /\ LET documents == TransformFileToDocuments(th[t].id, th[t].fi,
                                                  th[t].files[th[t].fi])
       IN  Set(t, [th[t] EXCEPT
                !.docs = IF th[t].again THEN Reload(documents) ELSE documents,
                !.pc = IF mode = "simple" THEN "lock" ELSE "transform"])
    /\ UNCHANGED <<component, helper, rd, lock, mem, vstore, disk, queue, nextOp, unsaved>>

\* Batch bulk_ingest: a process of the pool finishes extracting file i.  The
\* pool hands out the tasks in input order to count_workers processes, so
\* file i is being extracted when fewer than count_workers files before it
\* are unfinished.
PoolExtract(c, i) ==
    /\ th[c].pc = "pool_extract"
    /\ i \in 1..Len(th[c].files)
    /\ \A p \in 1..Len(th[c].completed) : th[c].completed[p] # i
    /\ Cardinality({j \in 1..(i - 1) :
            \A p \in 1..Len(th[c].completed) : th[c].completed[p] # j}) < countWorkers
    /\ LET documents == TransformFileToDocuments(th[c].id, i, th[c].files[i])
       IN  Set(c, [th[c] EXCEPT
                !.results[i] = IF th[c].again THEN Reload(documents) ELSE documents,
                !.completed = Append(@, i)])
    /\ UNCHANGED <<component, helper, rd, lock, mem, vstore, disk, queue, nextOp, unsaved>>

\* A starmap that returns as soon as one file is extracted, for comparison.
PoolCollectFirstResult(c) ==
    /\ th[c].pc = "pool_extract"
    /\ Len(th[c].completed) >= 1
    /\ th[c].failed = {}
    /\ Set(c, [th[c] EXCEPT !.docs = Collect(th[c].results, th[c].completed),
                            !.pc = "transform"])
    /\ UNCHANGED <<component, helper, rd, lock, mem, vstore, disk, queue, nextOp, unsaved>>

\* Batch bulk_ingest: starmap returns; documents = list(chain(...)).
PoolCollect(c) ==
    /\ th[c].pc = "pool_extract"
    /\ Len(th[c].completed) = Len(th[c].files)
    /\ th[c].failed = {}
    /\ Set(c, [th[c] EXCEPT !.docs = Collect(th[c].results, th[c].completed),
                            !.pc = "transform"])
    /\ UNCHANGED <<component, helper, rd, lock, mem, vstore, disk, queue, nextOp, unsaved>>

\* A pass that skips the documents whose hash the store has, for comparison.
TransformUnlessRecorded(t) ==
    /\ th[t].pc = "transform"
    /\ Set(t, [th[t] EXCEPT
                !.todo = RunTransformations(SelectSeq(th[t].docs,
                            LAMBDA doc : ~(doc.id \in DOMAIN mem.hashes
                                           /\ mem.hashes[doc.id] = Hash(doc)))),
                !.pc = "lock"])
    /\ UNCHANGED <<component, helper, rd, lock, mem, vstore, disk, queue, nextOp, unsaved>>

\* _save_docs of the batch and parallel components, before the lock:
\* nodes = run_transformations(documents, transformations).
Transform(t) ==
    /\ th[t].pc = "transform"
    /\ Set(t, [th[t] EXCEPT !.todo = RunTransformations(th[t].docs), !.pc = "lock"])
    /\ UNCHANGED <<component, helper, rd, lock, mem, vstore, disk, queue, nextOp, unsaved>>

(* ------------------------- the critical section ------------------------ *)

\* A broken lock, for comparison: acquire succeeds while another thread
\* holds the lock.
AcquireNoWait(t) ==
    /\ th[t].pc = "lock"
    /\ lock' = t
    /\ Set(t, [th[t] EXCEPT
                !.pc = CASE th[t].kind = "delete" -> "del_begin"
                         [] mode = "simple" -> "insert_doc"
                         [] OTHER -> "insert_node",
                !.di = 1,
                !.acquired = @ + 1])
    /\ UNCHANGED <<component, helper, rd, mem, vstore, disk, queue, nextOp, unsaved>>

\* with self._index_thread_lock: blocks until the lock is free.
Acquire(t) ==
    /\ th[t].pc = "lock"
    /\ lock = NoThread
    /\ lock' = t
    /\ Set(t, [th[t] EXCEPT
                !.pc = CASE th[t].kind = "delete" -> "del_begin"
                         [] mode = "simple" -> "insert_doc"
                         [] OTHER -> "insert_node",
                !.di = 1,
                !.acquired = @ + 1])
    /\ UNCHANGED <<component, helper, rd, mem, vstore, disk, queue, nextOp, unsaved>>

\* SimpleIngestComponent._save_docs: self._index.insert(document) starts by
\* run_transformations([document], transformations): the node parser and the
\* embedding model run here, inside the with block.
InsertDoc(t) ==
    /\ th[t].pc = "insert_doc"
    /\ Set(t, [th[t] EXCEPT
                !.todo = RunTransformations(<<th[t].docs[th[t].di]>>),
                !.pc = "insert_node"])
    /\ UNCHANGED <<component, helper, rd, lock, mem, vstore, disk, queue, nextOp, unsaved>>

\* docstore.add_documents([node]): the node is stored under its id and its id
\* is appended to the ref-doc entry of its document; the entry takes the
\* metadata of the node when it has none yet.
AddNode(store, node) ==
    [store EXCEPT
        !.nodes = Put(@, node.id, [ref |-> node.ref, prev |-> node.prev,
                                   next |-> node.next,
                                   metadata |-> node.metadata]),
        !.order = IF node.id \in DOMAIN store.nodes THEN @ ELSE Append(@, node.id),
        !.refDocs = Put(@, node.ref,
                        IF node.ref \in DOMAIN store.refDocs
                        THEN (IF \E p \in 1..Len(store.refDocs[node.ref]) :
                                     store.refDocs[node.ref][p] = node.id
                              THEN store.refDocs[node.ref]
                              ELSE Append(store.refDocs[node.ref], node.id))
                        ELSE <<node.id>>),
        !.refMeta = IF node.ref \in DOMAIN store.refMeta
                       /\ DOMAIN store.refMeta[node.ref] # {}
                    THEN @
                    ELSE Put(@, node.ref, node.metadata)]

\* self._index.insert_nodes(nodes): vector_store.add(nodes) puts all nodes
\* of the call into the vector store, then the nodes are added to the
\* document store, one node per step.  With no nodes (a Document without
\* text) insert_nodes returns at once.
InsertNode(t) ==
    /\ th[t].pc = "insert_node"
    /\ IF th[t].todo = << >>
       THEN UNCHANGED <<vstore, mem, unsaved>>
       ELSE /\ vstore' = vstore \cup {th[t].todo[p] : p \in 1..Len(th[t].todo)}
            /\ mem' = AddNode(mem, Head(th[t].todo))
            /\ unsaved' = unsaved \cup {t}
    /\ Set(t, [th[t] EXCEPT
                !.todo = IF @ = << >> THEN @ ELSE Tail(@),
                !.pc = IF Len(th[t].todo) <= 1 THEN "set_hash" ELSE "insert_node",
                !.di = IF Len(th[t].todo) <= 1 /\ mode # "simple" THEN 1 ELSE @])
    /\ UNCHANGED <<component, helper, rd, lock, disk, queue, nextOp>>

\* A loop that records no hash, for comparison.
SetHashNothing(t) ==
    /\ th[t].pc = "set_hash"
    /\ LET more == th[t].di < Len(th[t].docs)
       IN  /\ mem' = mem
           /\ Set(t, [th[t] EXCEPT
                       !.di = IF more THEN @ + 1 ELSE @,
                       !.pc = IF ~more THEN "persist"
                              ELSE IF mode = "simple" THEN "insert_doc"
                              ELSE "set_hash"])
    /\ unsaved' = unsaved \cup {t}
    /\ UNCHANGED <<component, helper, rd, vstore, lock, disk, queue, nextOp>>

\* docstore.set_document_hash(document.get_doc_id(), document.hash): in the
\* simple component at the end of index.insert(document), in the others in
\* the loop over the documents after insert_nodes.
SetHash(t) ==
    /\ th[t].pc = "set_hash"
    /\ LET doc == th[t].docs[th[t].di]
           more == th[t].di < Len(th[t].docs)
       IN  /\ mem' = [mem EXCEPT !.hashes = Put(@, doc.id, Hash(doc))]
           /\ Set(t, [th[t] EXCEPT
                       !.di = IF more THEN @ + 1 ELSE @,
                       !.pc = IF ~more THEN "persist"
                              ELSE IF mode = "simple" THEN "insert_doc"
                              ELSE "set_hash"])
    /\ unsaved' = unsaved \cup {t}
    /\ UNCHANGED <<component, helper, rd, vstore, lock, disk, queue, nextOp>>

\* A delete that forgets the nodes, for comparison: only the ref-doc entry
\* and the hash are removed.
DeleteBeginKeepNodes(t) ==
    /\ th[t].pc = "del_begin"
    /\ LET known == th[t].target \in DOMAIN mem.refDocs
       IN  Set(t, [th[t] EXCEPT
                    !.found = known,
                    !.pc = IF known THEN "del_ref" ELSE "persist"])
    /\ vstore' = {v \in vstore : v.ref # th[t].target}
    /\ UNCHANGED <<component, helper, rd, lock, mem, disk, queue, nextOp, unsaved>>

\* index.delete_ref_doc(doc_id, delete_from_docstore=True) begins:
\* vector_store.delete(doc_id) removes the document's nodes from the vector
\* store; ref_doc_info = docstore.get_ref_doc_info(doc_id).  Without an entry there
\* is nothing to remove and the call returns normally.
DeleteBegin(t) ==
    /\ th[t].pc = "del_begin"
    /\ LET known == th[t].target \in DOMAIN mem.refDocs
       IN  Set(t, [th[t] EXCEPT
                    !.found = known,
                    !.todo = IF known THEN mem.refDocs[th[t].target] ELSE << >>,
                    !.pc = IF known THEN "del_node" ELSE "persist"])
    /\ vstore' = {v \in vstore : v.ref # th[t].target}
    /\ UNCHANGED <<component, helper, rd, lock, mem, disk, queue, nextOp, unsaved>>

\* docstore.delete_document(node_id, remove_ref_doc_node=False): the node is
\* removed; the nodes that link to it are not touched.
RemoveNode(store, n) ==
    [store EXCEPT
        !.nodes = Without(@, n),
        !.order = SelectSeq(@, LAMBDA x : x # n)]

DeleteNode(t) ==
    /\ th[t].pc = "del_node"
    /\ th[t].todo # << >>
    /\ mem' = RemoveNode(mem, Head(th[t].todo))
    /\ unsaved' = unsaved \cup {t}
    /\ Set(t, [th[t] EXCEPT
                !.todo = Tail(@),
                !.pc = IF Len(th[t].todo) = 1 THEN "del_ref" ELSE "del_node"])
    /\ UNCHANGED <<component, helper, rd, vstore, lock, disk, queue, nextOp>>

\* The end of docstore.delete_ref_doc: the document's hash and its ref-doc
\* entry are removed.
RemoveRefDoc(store, d) ==
    [store EXCEPT !.refDocs = Without(@, d), !.refMeta = Without(@, d),
                  !.hashes = Without(@, d)]

\* A delete without self._save_index(), for comparison.
DeleteRefDocNoSave(t) ==
    /\ th[t].pc = "del_ref"
    /\ mem' = RemoveRefDoc(mem, th[t].target)
    /\ unsaved' = unsaved \cup {t}
    /\ Set(t, [th[t] EXCEPT !.pc = "unlock"])
    /\ UNCHANGED <<component, helper, rd, vstore, lock, disk, queue, nextOp>>

DeleteRefDoc(t) ==
    /\ th[t].pc = "del_ref"
    /\ mem' = RemoveRefDoc(mem, th[t].target)
    /\ unsaved' = unsaved \cup {t}
    /\ Set(t, [th[t] EXCEPT !.pc = "persist"])
    /\ UNCHANGED <<component, helper, rd, vstore, lock, disk, queue, nextOp>>

\* The stores as a reader of the snapshot finds them.
Persisted == FromJson(disk)

\* self._save_index(): storage_context.persist(persist_dir=local_data_path)
\* writes the whole store.
Persist(t) ==
    /\ th[t].pc = "persist"
    /\ disk' = ToJson(mem)
    /\ unsaved' = {}
    /\ Set(t, [th[t] EXCEPT !.pc = "unlock"])
    /\ UNCHANGED <<component, helper, rd, lock, mem, vstore, queue, nextOp>>

DocIds(documents) == {documents[p].id : p \in 1..Len(documents)}

\* A simple bulk_ingest that keeps the lock from one file to the next, for
\* comparison.
ReleaseAfterLastFile(t) ==
    /\ th[t].pc = "unlock"
    /\ lock' = IF lock = t /\ ~(th[t].kind = "bulk" /\ mode = "simple"
                                /\ th[t].fi < Len(th[t].files))
               THEN NoThread ELSE lock
    /\ CASE th[t].kind = "task" ->
              th' = [th EXCEPT
                          ![t] = Idle,
                          ![th[t].owner].results[th[t].fi] = th[t].docs,
                          ![th[t].owner].completed = Append(@, th[t].fi)]
         [] th[t].kind = "bulk" /\ mode = "simple" /\ th[t].fi < Len(th[t].files) ->
              Set(t, [th[t] EXCEPT !.ret = @ \o th[t].docs, !.docs = << >>,
                                      !.fi = @ + 1, !.pc = "extract"])
         [] th[t].kind = "delete" ->
              Set(t, [th[t] EXCEPT !.pc = "done", !.outcome = "returned"])
         [] OTHER ->
              Set(t, [th[t] EXCEPT !.ret = @ \o th[t].docs, !.pc = "done",
                                      !.outcome = "returned"])
    /\ UNCHANGED <<component, helper, rd, mem, vstore, disk, queue, nextOp, unsaved>>

\* The with block ends (the lock is released) and _save_docs / delete
\* returns.  ingest returns the documents; the simple bulk_ingest extends
\* saved_documents and goes on with the next file; a pool thread hands the
\* result of its task to the starmap of the caller.
Release(t) ==
    /\ th[t].pc = "unlock"
    /\ lock' = IF lock = t THEN NoThread ELSE lock
    /\ CASE th[t].kind = "task" ->
              th' = [th EXCEPT
                          ![t] = Idle,
                          ![th[t].owner].results[th[t].fi] = th[t].docs,
                          ![th[t].owner].completed = Append(@, th[t].fi)]
         [] th[t].kind = "bulk" /\ mode = "simple" /\ th[t].fi < Len(th[t].files) ->
              Set(t, [th[t] EXCEPT !.ret = @ \o th[t].docs, !.docs = << >>,
                                      !.fi = @ + 1, !.pc = "extract"])
         [] th[t].kind = "delete" ->
              Set(t, [th[t] EXCEPT !.pc = "done", !.outcome = "returned"])
         [] OTHER ->
              Set(t, [th[t] EXCEPT !.ret = @ \o th[t].docs, !.pc = "done",
                                      !.outcome = "returned"])
    /\ UNCHANGED <<component, helper, rd, mem, vstore, disk, queue, nextOp, unsaved>>

\* Parallelized bulk_ingest: starmap returns once every task has delivered
\* its result; documents = list(chain(...)).
BulkReturn(c) ==
    /\ th[c].pc = "bulk_wait"
    /\ Len(th[c].completed) = Len(th[c].files)
    /\ th[c].failed = {}
    /\ Set(c, [th[c] EXCEPT !.ret = Collect(th[c].results, th[c].completed),
                            !.pc = "done", !.outcome = "returned"])
    /\ UNCHANGED <<component, helper, rd, lock, mem, vstore, disk, queue, nextOp, unsaved>>

\* The doc_ids a client can ask to delete: those list_ingested shows, and
\* one that is not in the store.
DeleteTargets == DOMAIN mem.refDocs \cup {AbsentDoc}

Next ==
    \/ \E c \in Callers, f \in IngestInputs : CallIngest(c, f)
    \/ \E c \in Callers, fs \in BulkInputs : CallBulk(c, fs)
    \/ \E c \in Callers, d \in DeleteTargets : CallDelete(c, d)
    \/ \E w \in PoolThreads : TakeTask(w)
    \/ \E t \in Threads : Extract(t)
    \/ \E c \in Callers : \E i \in 1..Len(th[c].files) : PoolExtract(c, i)
    \/ \E c \in Callers : PoolCollect(c)
    \/ \E t \in Threads : Transform(t)
    \/ \E t \in Threads : Acquire(t)
    \/ \E t \in Threads : InsertDoc(t)
    \/ \E t \in Threads : InsertNode(t)
    \/ \E t \in Threads : SetHash(t)
    \/ \E t \in Threads : DeleteBegin(t)
    \/ \E t \in Threads : DeleteNode(t)
    \/ \E t \in Threads : DeleteRefDoc(t)
    \/ \E t \in Threads : Persist(t)
    \/ \E t \in Threads : Release(t)
    \/ \E c \in Callers : BulkReturn(c)

Spec == Init /\ [][Next]_vars

(* ---------------------------- construction ----------------------------- *)

\* The values of settings.embedding.count_workers tried (an int without
\* constraint in EmbeddingSettings).
WorkerCounts == -1..Cardinality(PoolThreads)

\* The values of settings.embedding.ingest_mode get_ingestion_component has
\* a case for, and the values tried.
KnownModes == {"simple", "batch", "parallel"}
IngestModes == KnownModes \cup {"other"}

\* Before get_ingestion_component has built the component.
InitNew ==
    /\ mode \in IngestModes
    /\ countWorkers \in WorkerCounts
    /\ (mode = "simple" => countWorkers = 1)
    /\ lock = NoThread
    /\ mem = NoStores
    /\ disk = NoSnapshot
    /\ th = [t \in Threads |-> Idle]
    /\ queue = << >>
    /\ nextOp = 1
    /\ unsaved = {}
    /\ built = "new"
    /\ pools = << >>
    /\ vstore = {}
    /\ rd = NoRequest
    /\ helper = NoCall

\* A get_ingestion_component whose default case returns the simple
\* component, for comparison.
UnknownModeAsSimple ==
    /\ built = "new"
    /\ mode \notin KnownModes
    /\ built' = "built"
    /\ UNCHANGED <<mode, helper, countWorkers, pools, rd, lock, mem, vstore,
                   disk, th, queue, nextOp, unsaved>>

\* get_ingestion_component, case _: raise ValueError("Unknown ingest_mode
\* ..."); no constructor has run.  The other cases call the constructor of
\* the component for the mode (InitializeIndex and the steps after it).
UnknownMode ==
    /\ built = "new"
    /\ mode \notin KnownModes
    /\ built' = "failed"
    /\ UNCHANGED <<mode, helper, countWorkers, pools, rd, lock, mem, vstore,
                   disk, th, queue, nextOp, unsaved>>

\* An _initialize_index that takes every start for a first run, for
\* comparison: it creates and persists a new index without trying to load.
InitializeIndexAlwaysNew ==
    /\ built = "new"
    /\ mode \in KnownModes
    /\ built' = IF mode = "simple" THEN "built" ELSE "index"
    /\ mem' = [mem EXCEPT !.indexes = @ + 1]
    /\ disk' = ToJson(mem')
    /\ UNCHANGED <<mode, helper, countWorkers, pools, rd, lock, vstore, th,
                   queue, nextOp, unsaved>>

\* BaseIngestComponentWithIndex.__init__: the lock and the index
\* (_initialize_index).  load_index_from_storage returns the index of the
\* index store when the store holds exactly one index struct and raises
\* ValueError otherwise; on ValueError VectorStoreIndex.from_documents([])
\* adds a new, empty index struct to the store and the storage context is
\* persisted.  The constructor of the simple component ends here.
InitializeIndex ==
    /\ built = "new"
    /\ mode \in KnownModes
    /\ built' = IF mode = "simple" THEN "built" ELSE "index"
    /\ IF mem.indexes = 1
       THEN UNCHANGED <<mem, disk>>
       ELSE /\ mem' = [mem EXCEPT !.indexes = @ + 1]
            /\ disk' = ToJson(mem')
    /\ UNCHANGED <<mode, helper, countWorkers, pools, rd, lock, vstore, th,
                   queue, nextOp, unsaved>>

\* A constructor without the assert on count_workers, for comparison.
CheckWorkersNothing ==
    /\ built = "index"
    /\ built' = "checked"
    /\ UNCHANGED <<mode, helper, countWorkers, pools, rd, lock, mem, vstore, disk, th,
                   queue, nextOp, unsaved>>

\* assert count_workers > 0, "count_workers must be greater than 0": the
\* constructor raises AssertionError, no component results.
CheckWorkers ==
    /\ built = "index"
    /\ built' = IF countWorkers > 0 THEN "checked" ELSE "failed"
    /\ UNCHANGED <<mode, helper, countWorkers, pools, rd, lock, mem, vstore, disk, th,
                   queue, nextOp, unsaved>>

\* The next pool of the constructor: multiprocessing.pool.ThreadPool or
\* multiprocessing.Pool with processes=self.count_workers.
CreatePool ==
    /\ built = "checked"
    /\ LET name == IF mode = "parallel" /\ pools = << >>
                   THEN "_ingest_work_pool"
                   ELSE "_file_to_documents_work_pool"
       IN  /\ pools' = Append(pools, [name |-> name, processes |-> countWorkers,
                                       calls |-> << >>])
           /\ built' = IF name = "_file_to_documents_work_pool"
                        THEN "built" ELSE "checked"
    /\ UNCHANGED <<mode, helper, countWorkers, rd, lock, mem, vstore, disk, th,
                   queue, nextOp, unsaved>>

\* The component is built at start-up and used afterwards.
NextLife ==
    \/ UnknownMode
    \/ InitializeIndex
    \/ CheckWorkers
    \/ CreatePool
    \/ built = "built" /\ Next

SpecLife == InitNew /\ [][NextLife]_vars

(* ------------------------------- restart ------------------------------- *)

\* An exception other than ValueError in _initialize_index (an OSError of
\* the storage, say) is not caught: the constructor raises and no component
\* results.  Nothing is created or persisted.
InitializeIndexRaise ==
    /\ built = "new"
    /\ built' = "failed"
    /\ UNCHANGED <<mode, helper, countWorkers, pools, rd, lock, mem, vstore, disk, th,
                   queue, nextOp, unsaved>>

\* The process ends while no call is running and is started again: the
\* memory and the pools are gone, the snapshot and the vector store remain,
\* and the document store and the index store of the new process are read
\* from the snapshot.
Restart ==
    /\ built \in {"built", "failed"}
    /\ lock = NoThread
    /\ queue = << >>
    /\ \A t \in Threads : Free(t)
    /\ rd.pc = "idle"
    /\ built' = "new"
    /\ pools' = << >>
    /\ mem' = FromJson(disk)
    /\ th' = [t \in Threads |-> Idle]
    /\ unsaved' = {}
    /\ UNCHANGED <<mode, helper, countWorkers, rd, lock, vstore, disk, queue, nextOp>>

NextLoad ==
    \/ NextLife
    \/ InitializeIndexRaise
    \/ Restart

SpecLoad == InitNew /\ [][NextLoad]_vars

(* ------------------------------ shutdown ------------------------------- *)

\* The pipeline is shut down when the component is destroyed; only
\* ParallelizedIngestComponent defines __del__.  built is "del" while the
\* component is being destroyed and "deleted" afterwards.  No new call starts
\* once the destruction has begun; the calls and pool tasks that are running
\* go on.

\* The position in pools of the pool __del__ works on: the first one not
\* terminated yet (_ingest_work_pool, then _file_to_documents_work_pool).
DelPool ==
    CHOOSE p \in 1..Len(pools) :
        /\ pools[p].calls # <<"close", "join", "terminate">>
        /\ \A r \in 1..(p - 1) : pools[r].calls = <<"close", "join", "terminate">>

\* No task of the pool is queued or running: the threads of
\* _ingest_work_pool are idle and its queue is empty; no starmap of
\* _file_to_documents_work_pool has a file left to extract (the apply of the
\* parallel component is part of the Extract step).
PoolAtRest(name) ==
    IF name = "_ingest_work_pool"
    THEN queue = << >> /\ \A w \in PoolThreads : Free(w)
    ELSE \A c \in Callers :
            th[c].pc = "pool_extract" => Len(th[c].completed) = Len(th[c].files)

\* The last reference to the component goes away (or the interpreter exits).
BeginDel ==
    /\ built = "built"
    /\ built' = "del"
    /\ UNCHANGED <<mode, helper, countWorkers, pools, rd, lock, mem, vstore, disk, th,
                   queue, nextOp, unsaved>>

\* self._ingest_work_pool.close() / self._file_to_documents_work_pool.close()
ClosePool ==
    /\ built = "del"
    /\ mode = "parallel"
    /\ pools[DelPool].calls = << >>
    /\ pools' = [pools EXCEPT ![DelPool].calls = <<"close">>]
    /\ UNCHANGED <<mode, helper, countWorkers, built, rd, lock, mem, vstore, disk, th,
                   queue, nextOp, unsaved>>

\* A __del__ that does not wait for the tasks of the pool, for comparison.
JoinPoolNoWait ==
    /\ built = "del"
    /\ mode = "parallel"
    /\ pools[DelPool].calls = <<"close">>
    /\ pools' = [pools EXCEPT ![DelPool].calls = <<"close", "join">>]
    /\ UNCHANGED <<mode, helper, countWorkers, built, rd, lock, mem, vstore, disk, th,
                   queue, nextOp, unsaved>>

\* pool.join(): returns when the workers have exited, which they do after
\* the queued and the running tasks of the closed pool have finished.
JoinPool ==
    /\ built = "del"
    /\ mode = "parallel"
    /\ pools[DelPool].calls = <<"close">>
    /\ PoolAtRest(pools[DelPool].name)
    /\ pools' = [pools EXCEPT ![DelPool].calls = <<"close", "join">>]
    /\ UNCHANGED <<mode, helper, countWorkers, built, rd, lock, mem, vstore, disk, th,
                   queue, nextOp, unsaved>>

\* pool.terminate(); __del__ ends after the second pool.
TerminatePool ==
    /\ built = "del"
    /\ mode = "parallel"
    /\ pools[DelPool].calls = <<"close", "join">>
    /\ pools' = [pools EXCEPT ![DelPool].calls = <<"close", "join", "terminate">>]
    /\ built' = IF DelPool = Len(pools) THEN "deleted" ELSE "del"
    /\ UNCHANGED <<mode, helper, countWorkers, rd, lock, mem, vstore, disk, th,
                   queue, nextOp, unsaved>>

\* BatchIngestComponent (like SimpleIngestComponent) defines no __del__ and
\* no other shutdown method: the object goes away and the component has
\* called nothing on its process pool (what becomes of the worker processes
\* is left to multiprocessing's finalizer for the Pool).
Collected ==
    /\ built = "del"
    /\ mode # "parallel"
    /\ built' = "deleted"
    /\ UNCHANGED <<mode, helper, countWorkers, pools, rd, lock, mem, vstore, disk, th,
                   queue, nextOp, unsaved>>

NextShut ==
    \/ built \in {"built", "del"} /\ Next /\ (built = "del" => nextOp' = nextOp)
    \/ BeginDel
    \/ ClosePool
    \/ JoinPool
    \/ TerminatePool
    \/ Collected

SpecShut == Init /\ [][NextShut]_vars

(* ------------------------------ failures ------------------------------- *)

\* One file fails in a behaviour.
NoFailureYet == \A t \in Threads : th[t].outcome # "raised" /\ th[t].failed = {}

\* The call running in thread t ends with an exception for file i; a pool
\* task hands the exception to the starmap of its caller instead, and its
\* thread is free again.
Raise(t, i, stage, file) ==
    IF th[t].kind = "task"
    THEN th' = [th EXCEPT
                    ![t] = Idle,
                    ![th[t].owner].completed = Append(@, th[t].fi),
                    ![th[t].owner].failed = @ \cup {i},
                    ![th[t].owner].error = [stage |-> stage, file |-> file]]
    ELSE Set(t, [th[t] EXCEPT !.pc = "done", !.outcome = "raised",
                                 !.failed = {i},
                                 !.error = [stage |-> stage, file |-> file]])

\* transform_file_to_documents raises (an unreadable file); the reader's
\* exception may or may not name the file.  bulk_ingest of the simple
\* component leaves its loop, saved_documents is lost.
ExtractFail(t, named) ==
    /\ th[t].pc = "extract"
    /\ NoFailureYet
    /\ Raise(t, th[t].fi, "extract", IF named THEN th[t].fi ELSE NoFile)
    /\ UNCHANGED <<component, helper, rd, lock, mem, vstore, disk, queue, nextOp, unsaved>>

\* Batch bulk_ingest: the extraction of file i raises in its pool process;
\* starmap keeps the first exception and waits for the other tasks.
PoolExtractFail(c, i, named) ==
    /\ th[c].pc = "pool_extract"
    /\ NoFailureYet
    /\ i \in 1..Len(th[c].files)
    /\ \A p \in 1..Len(th[c].completed) : th[c].completed[p] # i
    /\ Cardinality({j \in 1..(i - 1) :
            \A p \in 1..Len(th[c].completed) : th[c].completed[p] # j}) < countWorkers
    /\ Set(c, [th[c] EXCEPT
                !.completed = Append(@, i),
                !.failed = {i},
                !.error = [stage |-> "extract", file |-> IF named THEN i ELSE NoFile]])
    /\ UNCHANGED <<component, helper, rd, lock, mem, vstore, disk, queue, nextOp, unsaved>>

\* Batch bulk_ingest: starmap re-raises the exception once all tasks ended;
\* _save_docs is not reached.
PoolRaise(c) ==
    /\ th[c].pc = "pool_extract"
    /\ Len(th[c].completed) = Len(th[c].files)
    /\ th[c].failed # {}
    /\ Set(c, [th[c] EXCEPT !.pc = "done", !.outcome = "raised"])
    /\ UNCHANGED <<component, helper, rd, lock, mem, vstore, disk, queue, nextOp, unsaved>>

\* run_transformations raises before the lock is taken (batch, parallel):
\* the embedding of a Document of file i fails.  The exception of the
\* embedding model names no file.
TransformFail(t, i) ==
    /\ th[t].pc = "transform"
    /\ NoFailureYet
    /\ i \in IF th[t].kind = "bulk" THEN 1..Len(th[t].files) ELSE {th[t].fi}
    /\ Raise(t, i, "embed", NoFile)
    /\ UNCHANGED <<component, helper, rd, lock, mem, vstore, disk, queue, nextOp, unsaved>>

\* Simple component: index.insert(document) raises in run_transformations,
\* inside the with block: the lock is released, _save_index is not reached,
\* the Documents of the file inserted before stay in memory.
InsertDocFail(t) ==
    /\ th[t].pc = "insert_doc"
    /\ NoFailureYet
    /\ lock' = IF lock = t THEN NoThread ELSE lock
    /\ Raise(t, th[t].fi, "embed", NoFile)
    /\ UNCHANGED <<component, helper, rd, mem, vstore, disk, queue, nextOp, unsaved>>

\* A critical section that keeps the lock when it raises, for comparison
\* (acquire() without the with statement).
CriticalFailKeepLock(t, written) ==
    /\ lock = t
    /\ th[t].pc \in {"insert_node", "set_hash", "persist",
                     "del_begin", "del_node", "del_ref"}
    /\ NoFailureYet
    /\ disk' = IF th[t].pc = "persist" /\ written THEN ToJson(mem) ELSE disk
    /\ Raise(t, th[t].fi, IF th[t].pc = "persist" THEN "persist" ELSE "store",
             NoFile)
    /\ UNCHANGED <<component, helper, rd, lock, mem, vstore, queue, nextOp,
                   unsaved>>

\* A statement inside `with self._index_thread_lock:` raises: insert_nodes
\* or set_document_hash (_save_docs), delete_ref_doc (delete) or _save_index
\* (an OSError while the snapshot is written, before or after the document
\* store has been written).  The with statement releases the lock and the
\* exception leaves the call; mutations made so far stay in memory.
CriticalFail(t, written) ==
    /\ lock = t
    /\ th[t].pc \in {"insert_node", "set_hash", "persist",
                     "del_begin", "del_node", "del_ref"}
    /\ NoFailureYet
    /\ lock' = NoThread
    /\ disk' = IF th[t].pc = "persist" /\ written THEN ToJson(mem) ELSE disk
    /\ Raise(t, th[t].fi, IF th[t].pc = "persist" THEN "persist" ELSE "store",
             NoFile)
    /\ UNCHANGED <<component, helper, rd, mem, vstore, queue, nextOp, unsaved>>

\* Parallelized bulk_ingest: starmap re-raises the exception of the failed
\* task once all tasks ended.
BulkRaise(c) ==
    /\ th[c].pc = "bulk_wait"
    /\ Len(th[c].completed) = Len(th[c].files)
    /\ th[c].failed # {}
    /\ Set(c, [th[c] EXCEPT !.pc = "done", !.outcome = "raised"])
    /\ UNCHANGED <<component, helper, rd, lock, mem, vstore, disk, queue, nextOp, unsaved>>

NextFail ==
    \/ Next
    \/ \E t \in Threads, named \in BOOLEAN : ExtractFail(t, named)
    \/ \E c \in Callers, named \in BOOLEAN :
            \E i \in 1..Len(th[c].files) : PoolExtractFail(c, i, named)
    \/ \E c \in Callers : PoolRaise(c)
    \/ \E t \in Threads : \E i \in 1..Len(th[t].files) : TransformFail(t, i)
    \/ \E t \in Threads : InsertDocFail(t)
    \/ \E t \in Threads, written \in BOOLEAN : CriticalFail(t, written)
    \/ \E c \in Callers : BulkRaise(c)

\* The pipeline with files that fail.
SpecFail == Init /\ [][NextFail]_vars

(* ------------------------------ reading -------------------------------- *)

\* IngestService.list_ingested: the set of the ref_doc_ids of the nodes in
\* docstore.docs, one entry per element of the set.
ListIngested(store) == {store.nodes[n].ref : n \in DOMAIN store.nodes}

(* ------------------------------ retrieval ------------------------------ *)

\* The requests made to ChunksService.retrieve_relevant: the query (the
\* position, document in file and sentence in document, of the sentences it
\* is nearest to), limit and prev_next_chunks.
RetrieveInputs ==
    {[q |-> <<1, 3>>, limit |-> 1, n |-> 2],
     [q |-> <<2, 1>>, limit |-> 1, n |-> 1],
     [q |-> <<1, 1>>, limit |-> 2, n |-> 0]}

\* The similarity of a node to a query, as the vector database scores it.
Score(node, q) ==
    CASE <<node.id[3], node.id[4]>> = q -> 2
      [] node.id[4] = q[2] -> 1
      [] OTHER -> 0

Min(a, b) == IF a < b THEN a ELSE b

\* vector_index_retriever.retrieve(text): the similarity_top_k nodes of the
\* vector store nearest to the query, each with its score; the order in
\* which the database lists them is not relied on.
Retrieve(q, limit) ==
    LET k == Min(limit, Cardinality(vstore))
    IN  {[p \in 1..k |-> [node |-> h[p], score |-> Score(h[p], q)]] :
            h \in {g \in [1..k -> vstore] :
                     /\ \A i, j \in 1..k : i # j => g[i] # g[j]
                     /\ \A v \in vstore :
                            (\A i \in 1..k : g[i] # v) =>
                                \A i \in 1..k : Score(v, q) <= Score(g[i], q)}}

\* A sort that keeps the order of the database, for comparison.
SortByScoreKeep(nodes) == nodes

\* nodes.sort(key=lambda node: node.score, reverse=True): a stable sort,
\* highest score first.
RECURSIVE SortByScore(_)
SortByScore(nodes) ==
    IF nodes = << >> THEN << >>
    ELSE LET x == nodes[Len(nodes)]
             sorted == SortByScore(SubSeq(nodes, 1, Len(nodes) - 1))
             k == Cardinality({i \in 1..Len(sorted) : sorted[i].score >= x.score})
         IN  SubSeq(sorted, 1, k) \o <<x>> \o SubSeq(sorted, k + 1, Len(sorted))

\* Chunk.from_node(node); previous_texts and next_texts are set afterwards.
FromNode(hit) ==
    [score          |-> hit.score,
     doc_id         |-> hit.node.ref,
     doc_metadata   |-> hit.node.metadata,
     text           |-> Content(hit.node.id),
     previous_texts |-> << >>,
     next_texts     |-> << >>]

\* A client calls retrieve_relevant(text, None, limit, prev_next_chunks).
CallRetrieve(req) ==
    /\ rd.pc = "idle"
    /\ rd' = [NoRequest EXCEPT !.pc = "search", !.q = req.q, !.limit = req.limit,
                               !.n = req.n]
    /\ UNCHANGED <<component, helper, lock, mem, vstore, disk, th, queue, nextOp, unsaved>>

\* The walk of _get_sibling_nodes_text starts at a hit.
StartWalk(r, hit, forward) ==
    [r EXCEPT !.forward = forward,
              !.current = [id |-> hit.node.id, prev |-> hit.node.prev,
                           next |-> hit.node.next],
              !.left = r.n,
              !.texts = << >>]

\* nodes = vector_index_retriever.retrieve(text); nodes.sort(...); the loop
\* over the hits starts with the previous_texts of the first hit.
Search ==
    /\ rd.pc = "search"
    /\ \E found \in Retrieve(rd.q, rd.limit) :
         LET nodes == SortByScore(found)
         IN  rd' = IF nodes = << >>
                   THEN [rd EXCEPT !.pc = "done", !.outcome = "returned"]
                   ELSE StartWalk([rd EXCEPT !.pc = "walk", !.hits = nodes, !.hi = 1],
                                  nodes[1], FALSE)
    /\ UNCHANGED <<component, helper, lock, mem, vstore, disk, th, queue, nextOp, unsaved>>

\* explored_node_info = current_node.next_node if forward else
\* current_node.prev_node
ExploredNodeInfo(r) == IF r.forward THEN r.current.next ELSE r.current.prev

\* A walk that curates the metadata of the node it reads in place, for
\* comparison.
WalkCurateStored ==
    /\ rd.pc = "walk"
    /\ rd.left > 0
    /\ ExploredNodeInfo(rd) # NoNode
    /\ LET id == ExploredNodeInfo(rd)
       IN  IF id \in DOMAIN mem.nodes
           THEN /\ rd' = [rd EXCEPT !.texts = Append(@, Content(id)),
                                    !.current = [id |-> id, prev |-> mem.nodes[id].prev,
                                                 next |-> mem.nodes[id].next],
                                    !.left = @ - 1]
                /\ mem' = [mem EXCEPT !.nodes[id].metadata =
                              [k \in (DOMAIN @) \ {"doc_id", "window", "original_text"}
                                  |-> @[k]]]
           ELSE /\ rd' = [rd EXCEPT !.pc = "done", !.outcome = "raised"]
                /\ mem' = mem
    /\ UNCHANGED <<component, helper, lock, vstore, disk, th, queue, nextOp, unsaved>>

\* One iteration of the loop of _get_sibling_nodes_text that follows a
\* link: docstore.get_node(explored_node_info.node_id) raises ValueError
\* when the document store has no node under that id; nothing catches it.
Walk ==
    /\ rd.pc = "walk"
    /\ rd.left > 0
    /\ ExploredNodeInfo(rd) # NoNode
    /\ LET id == ExploredNodeInfo(rd)
       IN  rd' = IF id \in DOMAIN mem.nodes
                 THEN [rd EXCEPT !.texts = Append(@, Content(id)),
                                 !.current = [id |-> id, prev |-> mem.nodes[id].prev,
                                              next |-> mem.nodes[id].next],
                                 !.left = @ - 1]
                 ELSE [rd EXCEPT !.pc = "done", !.outcome = "raised"]
    /\ UNCHANGED <<component, helper, lock, mem, vstore, disk, th, queue, nextOp, unsaved>>

\* The loop of _get_sibling_nodes_text ends (range exhausted, or break at a
\* node without a link): the list becomes previous_texts and the forward
\* walk starts, or it becomes next_texts, the chunk is appended and the
\* loop of retrieve_relevant goes to the next hit or returns.
EndWalk ==
    /\ rd.pc = "walk"
    /\ (rd.left = 0 \/ ExploredNodeInfo(rd) = NoNode)
    /\ LET hit == rd.hits[rd.hi]
           chunk == [FromNode(hit) EXCEPT !.previous_texts = rd.previous,
                                          !.next_texts = rd.texts]
       IN  rd' = CASE ~rd.forward ->
                        StartWalk([rd EXCEPT !.previous = rd.texts], hit, TRUE)
                   [] rd.hi < Len(rd.hits) ->
                        StartWalk([rd EXCEPT !.chunks = Append(@, chunk),
                                             !.previous = << >>,
                                             !.hi = @ + 1],
                                  rd.hits[rd.hi + 1], FALSE)
                   [] OTHER ->
                        [rd EXCEPT !.chunks = Append(@, chunk),
                                   !.pc = "done", !.outcome = "returned"]
    /\ UNCHANGED <<component, helper, lock, mem, vstore, disk, th, queue, nextOp, unsaved>>

\* No operation of the ingest component is running.
Quiescent ==
    /\ lock = NoThread
    /\ queue = << >>
    /\ \A t \in Threads : Free(t)

\* A client of the chunks service that calls while no operation is running
\* and until whose answer none starts.
NextQuery ==
    \/ rd.pc = "idle" /\ Next
    \/ \E req \in RetrieveInputs : Quiescent /\ CallRetrieve(req)
    \/ Search
    \/ Walk
    \/ EndWalk

SpecQuery == Init /\ [][NextQuery]_vars

\* A client of the chunks service that calls at any time, while other
\* clients ingest and delete single files.
NextChunks ==
    \/ \E c \in Callers, f \in IngestInputs : CallIngest(c, f)
    \/ \E c \in Callers, d \in DeleteTargets : CallDelete(c, d)
    \/ \E t \in Callers : Extract(t)
    \/ \E t \in Callers : Transform(t)
    \/ \E t \in Callers : Acquire(t)
    \/ \E t \in Callers : InsertDoc(t)
    \/ \E t \in Callers : InsertNode(t)
    \/ \E t \in Callers : SetHash(t)
    \/ \E t \in Callers : DeleteBegin(t)
    \/ \E t \in Callers : DeleteNode(t)
    \/ \E t \in Callers : DeleteRefDoc(t)
    \/ \E t \in Callers : Persist(t)
    \/ \E t \in Callers : Release(t)
    \/ \E req \in RetrieveInputs : CallRetrieve(req)
    \/ Search
    \/ Walk
    \/ EndWalk

SpecChunks == Init /\ [][NextChunks]_vars

(* ------------------------- what the calls promise ---------------------- *)

\* The steps that read or change the store or write the snapshot.
InCritical(t) ==
    th[t].pc \in {"insert_doc", "insert_node", "set_hash",
                  "del_begin", "del_node", "del_ref", "persist"}

\* The documents of a call in the order of its file list.
ExpectedDocs(t) ==
    Flatten([i \in 1..Len(th[t].files) |->
                TransformFileToDocuments(th[t].id, i, th[t].files[i])])

Returned(t, kind) ==
    th[t].pc = "done" /\ th[t].kind = kind /\ th[t].outcome = "returned"

\* C1: at most one thread is in an index mutation or persist step, and a
\* thread in such a step holds the index lock.
MutualExclusion ==
    \A t \in Threads :
        InCritical(t) =>
            /\ lock = t
            /\ \A u \in Threads : InCritical(u) => u = t

\* C1 witness: a thread is inserting nodes while a delete of a stored
\* document waits for the lock.
MutualExclusionWitness ==
    \E t, u \in Threads :
        /\ t # u
        /\ th[t].pc = "insert_node"
        /\ th[u].pc = "lock"
        /\ th[u].kind = "delete"
        /\ th[u].target \in DOMAIN mem.refDocs

\* C2 (as claimed): in every strategy no thread holds the lock while the
\* extraction, the node splitting or the embedding of its documents runs.
LockOnlyAroundStore ==
    \A t \in Threads :
        lock = t => th[t].pc \notin {"extract", "pool_extract", "transform", "insert_doc"}

\* C3: a thread that does not hold the lock has no store mutation that a
\* persist has not followed, and a bulk_ingest that has returned has no file
\* still queued or in work and has returned the documents of every file.
PersistBeforeReturn ==
    /\ \A t \in Threads : lock # t => t \notin unsaved
    /\ \A c \in Callers :
          Returned(c, "bulk") =>
              /\ \A q \in 1..Len(queue) : queue[q].id # th[c].id
              /\ \A w \in PoolThreads : th[w].id # th[c].id
              /\ Len(th[c].ret) = Len(ExpectedDocs(c))

\* C3 witness: a parallelized bulk_ingest of two files has returned and the
\* snapshot holds the hash of each of its documents.
PersistBeforeReturnWitness ==
    \E c \in Callers :
        /\ mode = "parallel"
        /\ Returned(c, "bulk")
        /\ Len(th[c].files) = 2
        /\ DocIds(th[c].ret) \subseteq DOMAIN Persisted.hashes

NodeOfDoc(n, d) == n # NoNode /\ DocOfNode(n) = d

\* C5 (as claimed): after delete(doc_id) has returned, no node of the
\* document is in the store and no node in the store links to one.
DeleteCompleteness ==
    \A t \in Threads :
        Returned(t, "delete") =>
            \A n \in DOMAIN mem.nodes :
                /\ mem.nodes[n].ref # th[t].target
                /\ ~NodeOfDoc(mem.nodes[n].prev, th[t].target)
                /\ ~NodeOfDoc(mem.nodes[n].next, th[t].target)

\* C6 (as claimed): a delete of a doc_id that is not in the store ends with
\* a not-found condition.
DeleteAbsentNotFound ==
    \A t \in Threads :
        (Returned(t, "delete") /\ ~th[t].found) => th[t].outcome = "not_found"

\* C7: between operations every stored node's ref_doc_id has a ref-doc
\* entry in the document store, and that entry lists the node.
NoDanglingNodes ==
    lock = NoThread =>
        \A n \in DOMAIN mem.nodes :
            /\ mem.nodes[n].ref \in DOMAIN mem.refDocs
            /\ \E p \in 1..Len(mem.refDocs[mem.nodes[n].ref]) :
                  mem.refDocs[mem.nodes[n].ref][p] = n

\* C7 witness: a delete has removed a document while nodes of other
\* documents stay in the store.
NoDanglingNodesWitness ==
    /\ lock = NoThread
    /\ mem.nodes # << >>
    /\ \E t \in Threads : Returned(t, "delete") /\ th[t].found

\* The nodes of call t that are in the store, in store order.
StoredNodesOf(t) == SelectSeq(mem.order, LAMBDA n : n[1] = th[t].id)

Surviving(ids) == SelectSeq(ids, LAMBDA n : n \in DOMAIN mem.nodes)

\* C8: a batch bulk_ingest returns the documents in file-list order, its
\* nodes are in the store in that order (documents in file-list order, nodes
\* in extraction order), and the sibling links follow that order.
BatchBulkOrder ==
    \A c \in Callers :
        (mode = "batch" /\ Returned(c, "bulk")) =>
            LET ids == NodeIds(ExpectedDocs(c))
            IN  /\ th[c].ret = ExpectedDocs(c)
                /\ StoredNodesOf(c) = Surviving(ids)
                /\ \A p \in 1..(Len(ids) - 1) :
                      (ids[p] \in DOMAIN mem.nodes => mem.nodes[ids[p]].next = ids[p + 1])
                      /\ (ids[p + 1] \in DOMAIN mem.nodes =>
                              mem.nodes[ids[p + 1]].prev = ids[p])

\* C8 witness: the pool finished the second file before the first.
BatchBulkOrderWitness ==
    \E c \in Callers :
        /\ mode = "batch"
        /\ Returned(c, "bulk")
        /\ th[c].completed = <<2, 1>>
        /\ Len(StoredNodesOf(c)) = 3

\* C9: under the parallelized strategy the nodes of one file are next to
\* each other in the store and in extraction order.
ParallelPerFileOrder ==
    mode = "parallel" =>
        \A p, q \in 1..Len(mem.order) :
            (p < q /\ FileOfNode(mem.order[p]) = FileOfNode(mem.order[q])) =>
                /\ \/ mem.order[p][3] < mem.order[q][3]
                   \/ /\ mem.order[p][3] = mem.order[q][3]
                      /\ mem.order[p][4] < mem.order[q][4]
                /\ \A r \in p..q : FileOfNode(mem.order[r]) = FileOfNode(mem.order[p])

\* C9 witness: two files of one bulk_ingest are in the store, the second
\* file's nodes before the first file's two nodes.
ParallelPerFileOrderWitness ==
    /\ mode = "parallel"
    /\ Len(mem.order) >= 3
    /\ \E p, q \in 1..Len(mem.order) :
          /\ p < q
          /\ q < Len(mem.order)
          /\ mem.order[p][1] = mem.order[q][1]
          /\ mem.order[p][2] = 2
          /\ mem.order[q][2] = 1
          /\ mem.order[q + 1][2] = 1

\* C10 (amended): a parallelized bulk_ingest returns the documents in
\* file-list order, whatever order the pooled ingest calls completed in.
ParallelBulkInputOrder ==
    \A c \in Callers :
        (mode = "parallel" /\ Returned(c, "bulk")) => th[c].ret = ExpectedDocs(c)

\* C10 witness: the pooled ingest of the second file completed first.
ParallelBulkInputOrderWitness ==
    \E c \in Callers :
        /\ mode = "parallel"
        /\ Returned(c, "bulk")
        /\ th[c].completed = <<2, 1>>

\* C10 (as claimed): a parallelized bulk_ingest returns the documents in the
\* order in which the pooled ingest calls completed.
ParallelBulkCompletionOrder ==
    \A c \in Callers :
        (mode = "parallel" /\ Returned(c, "bulk")) =>
            th[c].ret = CollectCompletionOrder(th[c].results, th[c].completed)

\* The nodes run_transformations cuts one document into.
NodesOfDocument(doc) == {doc.id \o <<k>> : k \in 1..doc.n}

HashIn(store, doc) ==
    doc.id \in DOMAIN store.hashes /\ store.hashes[doc.id] = Hash(doc)

\* C11: a hash of a document of the running call is in the hash map only
\* once all nodes of that document are stored; when the persist of the same
\* critical section starts every document of the call has its hash, and the
\* snapshot written holds them; after the call returned, the hash map holds
\* doc_id -> hash for every returned document that was not deleted since.
HashAfterNodesBeforePersist ==
    \A t \in Threads :
        /\ (lock = t /\ th[t].kind # "delete") =>
              \A p \in 1..Len(th[t].docs) :
                  th[t].docs[p].id \in DOMAIN mem.hashes =>
                      /\ HashIn(mem, th[t].docs[p])
                      /\ NodesOfDocument(th[t].docs[p]) \subseteq DOMAIN mem.nodes
        /\ (th[t].pc = "persist" /\ th[t].kind # "delete") =>
              \A p \in 1..Len(th[t].docs) : HashIn(mem, th[t].docs[p])
        /\ (th[t].pc = "unlock" /\ th[t].kind # "delete") =>
              \A p \in 1..Len(th[t].docs) : HashIn(Persisted, th[t].docs[p])
        /\ (Returned(t, "ingest") \/ Returned(t, "bulk")) =>
              \A p \in 1..Len(th[t].ret) :
                  th[t].ret[p].id \in DOMAIN mem.refDocs => HashIn(mem, th[t].ret[p])

\* C11 witness: a bulk_ingest returned three documents and the snapshot
\* holds the hash of each.
HashAfterNodesBeforePersistWitness ==
    \E c \in Callers :
        /\ Returned(c, "bulk")
        /\ Len(th[c].ret) = 3
        /\ \A p \in 1..Len(th[c].ret) : HashIn(Persisted, th[c].ret[p])


\* A curation that pops one key per call, for comparison: the first of
\* doc_id, window, original_text the metadata holds.
CurateMetadataOneKey(metadata) ==
    LET key == CASE "doc_id" \in DOMAIN metadata -> "doc_id"
                 [] "window" \in DOMAIN metadata -> "window"
                 [] OTHER -> "original_text"
    IN  [k \in (DOMAIN metadata) \ {key} |-> metadata[k]]

\* IngestedDoc.curate_metadata(metadata): the keys doc_id, window and
\* original_text are removed.
CurateMetadata(metadata) ==
    [k \in (DOMAIN metadata) \ {"doc_id", "window", "original_text"} |-> metadata[k]]

(* --------------------------- curate_metadata --------------------------- *)

\* The metadata dictionaries curate_metadata is tried on: every dictionary
\* over these keys and values.
MetadataKeys == {"doc_id", "window", "original_text", "file_name", "page_label"}
MetadataValues == {"a", "b"}
MetadataInputs == UNION {[ks -> MetadataValues] : ks \in SUBSET MetadataKeys}

\* A constructed component at rest.
ComponentAtRest ==
    /\ mode = "simple"
    /\ countWorkers = 1
    /\ lock = NoThread
    /\ mem = EmptyStore
    /\ disk = ToJson(EmptyStore)
    /\ th = [t \in Threads |-> Idle]
    /\ queue = << >>
    /\ nextOp = 1
    /\ unsaved = {}
    /\ built = "built"
    /\ pools = << >>
    /\ vstore = {}
    /\ rd = NoRequest

InitCurate ==
    /\ ComponentAtRest
    /\ helper \in {[NoCall EXCEPT !.name = "curate_metadata", !.input = m,
                                  !.arg = m] : m \in MetadataInputs}

\* curate_metadata(metadata) pops the keys from the dictionary it is given
\* and returns that dictionary; the second call is given what the first
\* returned.
CurateCall ==
    /\ helper.name = "curate_metadata"
    /\ helper.calls < 2
    /\ helper' = [helper EXCEPT
                    !.arg = CurateMetadata(@),
                    !.output = CurateMetadata(helper.arg),
                    !.first = IF helper.calls = 0 THEN CurateMetadata(helper.arg)
                              ELSE @,
                    !.calls = @ + 1]
    /\ UNCHANGED <<component, lock, mem, vstore, disk, th, queue, nextOp,
                   unsaved, rd>>

NextCurate == CurateCall

SpecCurate == InitCurate /\ [][NextCurate]_vars

(* --------------------- transform_file_to_documents --------------------- *)

\* Some of the extensions of FILE_READER_CLS (DEFAULT_FILE_READER_CLS plus
\* ".json") with their reader classes.
FILE_READER_CLS ==
    [e \in {".pdf", ".md", ".json"} |->
        CASE e = ".pdf" -> "PDFReader"
          [] e = ".md" -> "MarkdownReader"
          [] OTHER -> "JSONReader"]

\* File names as <<stem, Path(file_name).suffix>>; the suffix keeps the case
\* of the name.
FileNames == {<<"report", ".pdf">>, <<"notes", ".md">>, <<"data", ".json">>,
              <<"letter", ".txt">>, <<"scan", ".PDF">>, <<"README", "">>}

\* The file at file_data: whether its bytes decode as text in the default
\* encoding, and the number of Documents a reader for its format makes of it.
FileData == [decodable : BOOLEAN, parts : 1..3]

\* The metadata a reader gives the j-th Document before the helper touches
\* it: PDFReader gives the page and the name of the file at file_data (the
\* temporary file of IngestService._ingest_data), the others nothing.
ReaderMetadata(reader, j) ==
    IF reader = "PDFReader"
    THEN [page_label |-> j, file_name |-> "tmp"]
    ELSE << >>

\* The Documents reader_cls().load_data(file_data) or
\* StringIterableReader().load_data([text]) returns: each with a fresh doc_id
\* and no excluded keys.  The string reader makes one Document of one text.
LoadData(reader, data) ==
    [j \in 1..(IF reader = "StringIterableReader" THEN 1 ELSE data.parts) |->
        [doc_id |-> <<"uuid", j>>,
         metadata |-> ReaderMetadata(reader, j),
         excluded_embed_metadata_keys |-> << >>,
         excluded_llm_metadata_keys |-> << >>]]

\* document.metadata["file_name"] = file_name
SetFileName(document, fileName) ==
    [document EXCEPT !.metadata = Put(@, "file_name", fileName)]

\* An _exclude_metadata that leaves the metadata alone, for comparison.
ExcludeMetadataKeysOnly(document) ==
    [document EXCEPT
        !.excluded_embed_metadata_keys = <<"doc_id">>,
        !.excluded_llm_metadata_keys = <<"file_name", "doc_id", "page_label">>]

\* The body of the loop of _exclude_metadata.
ExcludeMetadata(document) ==
    [document EXCEPT
        !.metadata = Put(@, "doc_id", document.doc_id),
        !.excluded_embed_metadata_keys = <<"doc_id">>,
        !.excluded_llm_metadata_keys = <<"file_name", "doc_id", "page_label">>]

InitExtract ==
    /\ ComponentAtRest
    /\ helper \in {[name |-> "transform_file_to_documents", pc |-> "load",
                    file_name |-> f, file_data |-> d, reader |-> "none",
                    documents |-> << >>, di |-> 0] :
                        f \in FileNames, d \in FileData}

\* _load_file_to_documents: the reader registered for the suffix, or, when
\* there is none, StringIterableReader on file_data.read_text(), which raises
\* UnicodeDecodeError when the bytes do not decode.
LoadFileToDocuments ==
    /\ helper.name = "transform_file_to_documents"
    /\ helper.pc = "load"
    /\ LET extension == helper.file_name[2]
           reader == IF extension \in DOMAIN FILE_READER_CLS
                     THEN FILE_READER_CLS[extension]
                     ELSE "StringIterableReader"
       IN  IF reader = "StringIterableReader" /\ ~helper.file_data.decodable
           THEN helper' = [helper EXCEPT !.pc = "raised", !.reader = reader]
           ELSE helper' = [helper EXCEPT
                              !.pc = "set_file_name", !.reader = reader,
                              !.documents = LoadData(reader, helper.file_data),
                              !.di = 1]
    /\ UNCHANGED <<component, lock, mem, vstore, disk, th, queue, nextOp,
                   unsaved, rd>>

\* for document in documents: document.metadata["file_name"] = file_name
SetFileNameStep ==
    /\ helper.name = "transform_file_to_documents"
    /\ helper.pc = "set_file_name"
    /\ helper' = [helper EXCEPT
                    !.documents[helper.di] = SetFileName(@, helper.file_name),
                    !.di = IF helper.di < Len(helper.documents) THEN @ + 1 ELSE 1,
                    !.pc = IF helper.di < Len(helper.documents)
                           THEN "set_file_name" ELSE "exclude_metadata"]
    /\ UNCHANGED <<component, lock, mem, vstore, disk, th, queue, nextOp,
                   unsaved, rd>>

\* The loop of _exclude_metadata; transform_file_to_documents returns the
\* documents after it.
ExcludeMetadataStep ==
    /\ helper.name = "transform_file_to_documents"
    /\ helper.pc = "exclude_metadata"
    /\ helper' = [helper EXCEPT
                    !.documents[helper.di] = ExcludeMetadata(@),
                    !.di = IF helper.di < Len(helper.documents) THEN @ + 1 ELSE @,
                    !.pc = IF helper.di < Len(helper.documents)
                           THEN "exclude_metadata" ELSE "returned"]
    /\ UNCHANGED <<component, lock, mem, vstore, disk, th, queue, nextOp,
                   unsaved, rd>>

NextExtract ==
    \/ LoadFileToDocuments
    \/ SetFileNameStep
    \/ ExcludeMetadataStep

SpecExtract == InitExtract /\ [][NextExtract]_vars

(* ---------------------------- list_ingested ---------------------------- *)

\* The distinct ref_doc_ids of the first k nodes of docstore.docs.
\* list_ingested collects them in a set and loops over the set; the order of
\* that loop is not fixed by the code, the order of first appearance is
\* taken here.
RECURSIVE IngestedDocsIds(_, _)
IngestedDocsIds(store, k) ==
    IF k = 0 THEN << >>
    ELSE LET before == IngestedDocsIds(store, k - 1)
             ref == store.nodes[store.order[k]].ref
         IN  IF \E p \in 1..Len(before) : before[p] = ref
             THEN before ELSE Append(before, ref)

\* The IngestedDoc of doc_id: doc_metadata is None without a ref-doc entry,
\* else curate_metadata(ref_doc_info.metadata).
IngestedDoc(store, docId) ==
    [doc_id |-> docId,
     doc_metadata |-> IF docId \in DOMAIN store.refMeta
                      THEN CurateMetadata(store.refMeta[docId])
                      ELSE <<"None">>]

\* A list_ingested with one entry per node, for comparison.
ListIngestedCallPerNode ==
    /\ built = "built"
    /\ Quiescent
    /\ helper.name \in {"none", "list_ingested"}
    /\ helper.calls < 2
    /\ LET output == [p \in 1..Len(mem.order) |->
                        IngestedDoc(mem, mem.nodes[mem.order[p]].ref)]
       IN  helper' = [helper EXCEPT
                        !.name = "list_ingested",
                        !.output = output,
                        !.first = IF helper.calls = 0 THEN output ELSE @,
                        !.calls = @ + 1]
    /\ mem' = [mem EXCEPT !.refMeta =
                  [d \in DOMAIN @ |->
                      IF d \in ListIngested(mem) THEN CurateMetadata(@[d]) ELSE @[d]]]
    /\ UNCHANGED <<component, lock, vstore, disk, th, queue, nextOp, unsaved, rd>>

\* IngestService.list_ingested, called while no operation is running: one
\* IngestedDoc per element of the set of ref_doc_ids.  curate_metadata pops
\* the keys from ref_doc_info.metadata itself, the dictionary the document
\* store holds.
ListIngestedCall ==
    /\ built = "built"
    /\ Quiescent
    /\ helper.name \in {"none", "list_ingested"}
    /\ helper.calls < 2
    /\ LET ids == IngestedDocsIds(mem, Len(mem.order))
           output == [p \in 1..Len(ids) |-> IngestedDoc(mem, ids[p])]
       IN  helper' = [helper EXCEPT
                        !.name = "list_ingested",
                        !.output = output,
                        !.first = IF helper.calls = 0 THEN output ELSE @,
                        !.calls = @ + 1]
    /\ mem' = [mem EXCEPT !.refMeta =
                  [d \in DOMAIN @ |->
                      IF d \in ListIngested(mem) THEN CurateMetadata(@[d]) ELSE @[d]]]
    /\ UNCHANGED <<component, lock, vstore, disk, th, queue, nextOp, unsaved, rd>>

\* Operations, and calls of list_ingested after which none starts.
NextList ==
    \/ helper.name = "none" /\ Next
    \/ ListIngestedCall

SpecList == Init /\ [][NextList]_vars

\* The siblings of a node in the document store: the ids of up to n nodes
\* reached from node by links whose target is stored, nearest first.
RECURSIVE Siblings(_, _, _)
Siblings(node, forward, n) ==
    LET id == IF forward THEN node.next ELSE node.prev
    IN  IF n = 0 \/ id = NoNode \/ id \notin DOMAIN mem.nodes
        THEN << >>
        ELSE <<id>> \o Siblings(mem.nodes[id], forward, n - 1)

\* All siblings before (forward = FALSE) or after a node in its chain.
Chain(node, forward) == Siblings(node, forward, Cardinality(DOMAIN mem.nodes))

Reverse(seq) == [p \in 1..Len(seq) |-> seq[Len(seq) + 1 - p]]

Texts(ids) == [p \in 1..Len(ids) |-> Content(ids[p])]

\* C12 (as claimed): on a store no operation is changing, retrieve_relevant
\* raises no error, and the chunk of a hit with a siblings before it and b
\* after it has min(n, a) previous texts and min(n, b) next texts.
ExpansionStopsAtBoundary ==
    /\ rd.outcome # "raised"
    /\ \A i \in 1..Len(rd.chunks) :
          /\ Len(rd.chunks[i].previous_texts)
                = Min(rd.n, Len(Chain(rd.hits[i].node, FALSE)))
          /\ Len(rd.chunks[i].next_texts)
                = Min(rd.n, Len(Chain(rd.hits[i].node, TRUE)))

\* C13 (as claimed): previous_texts holds the texts of the siblings before
\* the hit, earliest first; next_texts those after it, nearest first.
ExpansionInDocumentOrder ==
    \A i \in 1..Len(rd.chunks) :
        /\ rd.chunks[i].previous_texts
              = Texts(Reverse(Siblings(rd.hits[i].node, FALSE, rd.n)))
        /\ rd.chunks[i].next_texts
              = Texts(Siblings(rd.hits[i].node, TRUE, rd.n))

\* C14: a retrieve_relevant that returned gives at most limit chunks, the
\* i-th chunk is made from the i-th hit, and no chunk has a higher score
\* than a chunk before it.
ChunksLimitedAndSorted ==
    rd.outcome = "returned" =>
        /\ Len(rd.chunks) <= rd.limit
        /\ Len(rd.chunks) = Len(rd.hits)
        /\ \A i \in 1..Len(rd.chunks) :
              /\ rd.chunks[i].text = Content(rd.hits[i].node.id)
              /\ rd.chunks[i].score = Score(rd.hits[i].node, rd.q)
        /\ \A i, j \in 1..Len(rd.chunks) :
              i < j => rd.chunks[i].score >= rd.chunks[j].score
        /\ \A i, j \in 1..Len(rd.hits) : i # j => rd.hits[i].node.id # rd.hits[j].node.id

\* C14 witness: the vector store holds more than limit nodes and the call
\* returned limit = 2 chunks with different scores.
ChunksLimitedAndSortedWitness ==
    /\ rd.outcome = "returned"
    /\ rd.limit = 2
    /\ Cardinality(vstore) > 2
    /\ Len(rd.chunks) = 2
    /\ rd.chunks[1].score > rd.chunks[2].score

\* C15 (as claimed): a chunk carries the doc_id of the document its node
\* was cut from and that document's metadata without the keys doc_id,
\* window and original_text.
ChunkMetadataCurated ==
    \A i \in 1..Len(rd.chunks) :
        /\ rd.chunks[i].doc_id = DocOfNode(rd.hits[i].node.id)
        /\ DOMAIN rd.chunks[i].doc_metadata
              \cap {"doc_id", "window", "original_text"} = {}
        /\ rd.chunks[i].doc_metadata = CurateMetadata(rd.hits[i].node.metadata)


\* A delete has begun to remove the nodes of document d and has not yet
\* removed its ref-doc entry.
DeleteInProgress(d) ==
    \E t \in Threads :
        /\ th[t].kind = "delete"
        /\ th[t].pc \in {"del_node", "del_ref"}
        /\ th[t].target = d

\* C16: no step of retrieve_relevant changes the document store (nodes,
\* their metadata and links, ref-doc entries, hashes), the vector store or
\* the persisted snapshot, and none takes or releases the index lock.
RetrieveChangesNothing ==
    [][rd' # rd => /\ mem' = mem
                   /\ vstore' = vstore
                   /\ disk' = disk
                   /\ lock' = lock]_vars

\* C16 witness: retrieve_relevant returned a chunk with a sibling text while
\* a thread of the ingest component holds the lock.
RetrieveChangesNothingWitness ==
    /\ rd.outcome = "returned"
    /\ lock # NoThread
    /\ \E i \in 1..Len(rd.chunks) :
          rd.chunks[i].previous_texts # << >> \/ rd.chunks[i].next_texts # << >>

\* C17 (as claimed): no step of retrieve_relevant fails because the link it
\* follows leads to a node of a document that a delete, still running, has
\* removed.
RetrieveToleratesDelete ==
    [][(rd.pc = "walk" /\ rd'.outcome = "raised") =>
          ~ \E t \in Threads :
                /\ th[t].kind = "delete"
                /\ th[t].found
                /\ th[t].pc \in {"del_node", "del_ref", "persist", "unlock"}
                /\ th[t].target = DocOfNode(ExploredNodeInfo(rd))]_vars

\* C18 (as claimed): a walk step never reads a node of a document whose
\* delete is in progress, and never extends the chunk of a hit from such a
\* document.
ExpansionOnSnapshot ==
    [][(rd.pc = "walk" /\ rd'.pc = "walk" /\ Len(rd'.texts) = Len(rd.texts) + 1) =>
          /\ ~DeleteInProgress(DocOfNode(rd'.current.id))
          /\ ~DeleteInProgress(DocOfNode(rd.hits[rd.hi].node.id))]_vars


\* C19 (as claimed): a bulk_ingest in which a file failed either ended with
\* an exception that names the failing file, or returned the documents of
\* all other files, persisted, together with the outcome of every file.
\* bulk_ingest returns a list of documents only (no per-file outcome), so
\* the second policy needs at least a normal return.
BulkFailurePolicy ==
    \A c \in Callers :
        (th[c].kind = "bulk" /\ th[c].pc = "done" /\ th[c].failed # {}) =>
            \/ /\ th[c].outcome = "raised"
               /\ th[c].error.file \in th[c].failed
            \/ /\ th[c].outcome = "returned"
               /\ \A i \in (1..Len(th[c].files)) \ th[c].failed :
                    \A p \in 1..Len(th[c].results[i]) :
                        /\ th[c].results[i][p].id \in DOMAIN Persisted.refDocs
                        /\ \E k \in 1..Len(th[c].ret) : th[c].ret[k] = th[c].results[i][p]


\* C20: with count_workers <= 0 the constructor of the batch or parallel
\* component creates no pool and never yields a component (no operation
\* ever starts); every pool that exists has count_workers > 0 processes and
\* no pool is created twice; a built component owns its pools (one for
\* batch, two for parallel) from construction on.
WorkerPoolsAtConstruction ==
    /\ (mode \in {"batch", "parallel"} /\ countWorkers <= 0) =>
          /\ pools = << >>
          /\ built # "built"
    /\ built # "built" =>
          /\ nextOp = 1
          /\ \A t \in Threads : th[t].pc = "idle"
    /\ \A p \in 1..Len(pools) :
          /\ pools[p].processes = countWorkers
          /\ countWorkers > 0
          /\ \A r \in 1..Len(pools) : pools[r].name = pools[p].name => r = p
    /\ built = "built" =>
          {pools[p].name : p \in 1..Len(pools)}
            = CASE mode = "batch" -> {"_file_to_documents_work_pool"}
                [] mode = "parallel" -> {"_ingest_work_pool",
                                          "_file_to_documents_work_pool"}
                [] OTHER -> {}

\* C20 witness: the constructor of the parallel component has failed on
\* count_workers = 0.
WorkerPoolsAtConstructionWitness ==
    /\ mode = "parallel"
    /\ countWorkers = 0
    /\ built = "failed"
    /\ pools = << >>


\* C21: once the shutdown of the pipeline has completed, every worker pool
\* the pipeline created has been closed, joined (drained) and terminated.
PoolsShutDown ==
    built = "deleted" =>
        \A p \in 1..Len(pools) : pools[p].calls = <<"close", "join", "terminate">>

\* C22: the shutdown drains before it terminates: a pool on which terminate
\* has been called was closed and joined first, none of its tasks is queued
\* or running, and no thread of the ingest pool holds the index lock or has
\* left a mutation unpersisted.
DrainBeforeTerminate ==
    \A p \in 1..Len(pools) :
        (\E k \in 1..Len(pools[p].calls) : pools[p].calls[k] = "terminate") =>
            /\ pools[p].calls = <<"close", "join", "terminate">>
            /\ PoolAtRest(pools[p].name)
            /\ lock \notin PoolThreads
            /\ unsaved \cap PoolThreads = {}

\* The shutdown has closed the ingest pool while one of its tasks holds the
\* index lock.
DrainBeforeTerminateWitness ==
    /\ mode = "parallel"
    /\ pools[1].calls = <<"close">>
    /\ lock \in PoolThreads


\* C23: the constructor loads the index from the persisted state when there
\* is one: it then leaves the snapshot as it is and the component works on
\* the stores the snapshot holds.  A new, empty index is created and
\* persisted only when the snapshot holds no index, and never by a
\* constructor that ends with an error.
IndexLoadedOrCreated ==
    [][(built = "new" /\ built' # "new") =>
          /\ Persisted.indexes = 1 =>
                /\ disk' = disk
                /\ mem' = Persisted
          /\ (disk' # disk \/ mem' # mem) =>
                /\ Persisted.indexes = 0
                /\ built' # "failed"
                /\ mem' = EmptyStore
                /\ disk' = ToJson(EmptyStore)]_vars

\* C23 witness: a restarted process has built its component on a snapshot
\* that holds ingested documents.
IndexLoadedOrCreatedWitness ==
    /\ built = "built"
    /\ nextOp > 1
    /\ \A t \in Threads : th[t].pc = "idle"
    /\ DOMAIN mem.nodes # {}
    /\ mem = Persisted

CurateIdempotent ==
    (helper.name = "curate_metadata" /\ helper.calls >= 1) =>
        /\ DOMAIN helper.output =
              (DOMAIN helper.input) \ {"doc_id", "window", "original_text"}
        /\ \A k \in DOMAIN helper.output : helper.output[k] = helper.input[k]
        /\ helper.calls = 2 => helper.output = helper.first

\* C25 witness: metadata with all three keys and two others has been curated
\* twice.
CurateIdempotentWitness ==
    /\ helper.name = "curate_metadata"
    /\ helper.calls = 2
    /\ DOMAIN helper.input = MetadataKeys
    /\ DOMAIN helper.output = {"file_name", "page_label"}


Has(keys, k) == \E p \in 1..Len(keys) : keys[p] = k

\* C26: every document transform_file_to_documents returns has
\* metadata["doc_id"] equal to its doc_id and metadata["file_name"] equal to
\* the file name given, doc_id among its excluded_embed_metadata_keys, and
\* file_name, doc_id and page_label among its excluded_llm_metadata_keys.
DocumentsCarryIds ==
    (helper.name = "transform_file_to_documents" /\ helper.pc = "returned") =>
        \A j \in 1..Len(helper.documents) :
            LET document == helper.documents[j]
            IN  /\ "doc_id" \in DOMAIN document.metadata
                /\ document.metadata["doc_id"] = document.doc_id
                /\ "file_name" \in DOMAIN document.metadata
                /\ document.metadata["file_name"] = helper.file_name
                /\ Has(document.excluded_embed_metadata_keys, "doc_id")
                /\ \A k \in {"file_name", "doc_id", "page_label"} :
                        Has(document.excluded_llm_metadata_keys, k)

\* C26 witness: three documents of the PDF reader, which had set a file
\* name of its own, have been returned.
DocumentsCarryIdsWitness ==
    /\ helper.name = "transform_file_to_documents"
    /\ helper.pc = "returned"
    /\ helper.reader = "PDFReader"
    /\ Len(helper.documents) = 3

\* C27: for a file whose extension has no registered reader the extraction
\* does not fail and the content is read as plain text by the string reader;
\* for a registered extension the registered reader is used.
FallbackToPlainText ==
    (helper.name = "transform_file_to_documents" /\ helper.pc # "load") =>
        IF helper.file_name[2] \in DOMAIN FILE_READER_CLS
        THEN helper.reader = FILE_READER_CLS[helper.file_name[2]]
        ELSE /\ helper.reader = "StringIterableReader"
             /\ helper.pc # "raised"
             /\ Len(helper.documents) = 1


\* What tells the three components apart: only the simple component
\* transforms inside index.insert, only the batch component extracts through
\* a starmap of its process pool, only the parallel component has pooled
\* ingest tasks; they own no, one and two pools.
StrategyMatchesMode ==
    /\ mode \notin KnownModes =>
          /\ built \in {"new", "failed"}
          /\ pools = << >>
          /\ nextOp = 1
          /\ mem = NoStores /\ disk = NoSnapshot
    /\ \A t \in Threads :
          /\ th[t].pc = "insert_doc" => mode = "simple"
          /\ th[t].pc = "pool_extract" => mode = "batch"
          /\ (th[t].pc = "bulk_wait" \/ th[t].kind = "task") => mode = "parallel"
    /\ queue # << >> => mode = "parallel"
    /\ built = "built" =>
          Len(pools) = CASE mode = "simple" -> 0
                         [] mode = "batch" -> 1
                         [] mode = "parallel" -> 2

\* C28: the strategy is the one get_ingestion_component chose for the ingest
\* mode ("simple", "batch", "parallel"), for any other value the construction
\* fails and nothing is constructed, and the mode and the pools of a built
\* component do not change from one step to the next.
StrategyChosenOnce ==
    [][/\ mode' = mode
       /\ (built = "built" /\ built' = "built") => pools' = pools
       /\ StrategyMatchesMode']_vars

\* C28 witness: a batch component, built by the constructor, runs the
\* starmap of its second bulk_ingest.
StrategyChosenOnceWitness ==
    /\ mode = "batch"
    /\ \E t \in Threads : th[t].pc = "pool_extract" /\ th[t].id = 2


\* C29: list_ingested returns one entry for every ref_doc_id that a node of
\* the document store has, no two entries for the same document and no entry
\* for a document without nodes; the metadata of an entry is the document's
\* metadata without doc_id, window and original_text (its file name).
ListIngestedExact ==
    helper.name = "list_ingested" =>
        /\ {helper.output[p].doc_id : p \in 1..Len(helper.output)}
              = {mem.nodes[n].ref : n \in DOMAIN mem.nodes}
        /\ \A p, q \in 1..Len(helper.output) :
              helper.output[p].doc_id = helper.output[q].doc_id => p = q
        /\ \A p \in 1..Len(helper.output) :
              helper.output[p].doc_metadata
                 = [file_name |-> FileOfNode(helper.output[p].doc_id)]

\* C29 witness: list_ingested has been called twice on a store that holds
\* more nodes than documents, after a delete.
ListIngestedExactWitness ==
    /\ helper.name = "list_ingested"
    /\ helper.calls = 2
    /\ Len(helper.output) >= 1
    /\ Len(mem.order) > Len(helper.output)
    /\ \E t \in Threads : Returned(t, "delete") /\ th[t].found


\* C30: whatever step of an ingest, bulk_ingest or delete has raised, the
\* index lock is held only by a thread that is inside its critical section
\* (so it is free once the failing call has ended), no pool thread is lost to
\* a task that raised and no pool has been shut down, and the pipeline is
\* never stuck: unless every call has ended, some call can take a step.
FailureLeavesPipelineUsable ==
    /\ \A t \in Threads : lock = t => InCritical(t) \/ th[t].pc = "unlock"
    /\ \A w \in PoolThreads : th[w].outcome # "raised"
    /\ \A p \in 1..Len(pools) : pools[p].calls = << >>
    /\ Quiescent \/ ENABLED NextFail

\* C30 witness: a call has raised inside its critical section and a call
\* started after it has gone through the lock and returned.
FailureLeavesPipelineUsableWitness ==
    \E t, u \in Callers :
        /\ th[t].outcome = "raised"
        /\ th[t].error.stage \in {"store", "persist"}
        /\ th[u].outcome = "returned"
        /\ th[u].id > th[t].id


\* The steps of a call after the extraction of its files: the transform and
\* embed pass, the wait for the lock, the with block and the return.
PastExtraction(t) ==
    th[t].pc = "transform" \/ th[t].pc = "lock" \/ InCritical(t)
        \/ th[t].pc = "unlock" \/ Returned(t, th[t].kind)

\* C31: in a batch bulk_ingest, while the starmap runs nothing of the call is
\* embedded or in the index and the lock has not been taken; once the call is
\* past the starmap every file has been extracted; the transform and embed
\* pass is one pass over the documents of all files (after it the nodes the
\* call still has to insert and the nodes it has stored are together the
\* nodes of that one pass); and the call enters the with block once.
BatchSinglePass ==
    \A c \in Callers :
        (mode = "batch" /\ th[c].kind = "bulk") =>
            LET ids == NodeIds(ExpectedDocs(c))
                pass == RunTransformations(ExpectedDocs(c))
            IN  /\ th[c].pc = "pool_extract" =>
                      /\ th[c].todo = << >>
                      /\ th[c].acquired = 0
                      /\ \A n \in DOMAIN mem.nodes : n[1] # th[c].id
                      /\ \A v \in vstore : v.id[1] # th[c].id
                /\ PastExtraction(c) =>
                      /\ \A i \in 1..Len(th[c].files) :
                            th[c].results[i]
                               = TransformFileToDocuments(th[c].id, i, th[c].files[i])
                      /\ th[c].docs = ExpectedDocs(c)
                /\ th[c].pc = "transform" => th[c].todo = << >> /\ th[c].acquired = 0
                /\ th[c].pc = "lock" => th[c].todo = pass /\ th[c].acquired = 0
                /\ th[c].pc = "insert_node" =>
                      /\ th[c].todo = SubSeq(pass, Len(pass) - Len(th[c].todo) + 1, Len(pass))
                      /\ \A p \in 1..(Len(pass) - Len(th[c].todo)) :
                            ids[p] \in DOMAIN mem.nodes
                /\ (InCritical(c) \/ th[c].pc = "unlock" \/ Returned(c, "bulk")) =>
                      th[c].acquired = 1

\* C31 witness: a batch bulk_ingest of two files, the second extracted first,
\* is inside its with block and has stored one node of its three.
BatchSinglePassWitness ==
    \E c \in Callers :
        /\ mode = "batch"
        /\ th[c].kind = "bulk"
        /\ th[c].completed = <<2, 1>>
        /\ th[c].pc = "insert_node"
        /\ Len(th[c].todo) = 2
        /\ th[c].acquired = 1


\* C32: a simple bulk_ingest enters the with block once per file (it has
\* entered it once for every file before the current one, and once more when
\* it is in or past the with block of the current file) and holds the lock
\* only inside a with block; under the parallelized strategy every ingest
\* call, direct or pooled, enters the with block once, after its extraction
\* and after its transform and embed pass, the bulk_ingest caller itself never
\* takes the lock, and at most one thread is in a persist step.
LockGranularity ==
    /\ \A t \in Threads : lock = t => InCritical(t) \/ th[t].pc = "unlock"
    /\ \A c \in Callers :
          (mode = "simple" /\ th[c].kind = "bulk") =>
              /\ th[c].pc \in {"extract", "lock"} => th[c].acquired = th[c].fi - 1
              /\ (InCritical(c) \/ th[c].pc = "unlock") => th[c].acquired = th[c].fi
              /\ Returned(c, "bulk") => th[c].acquired = Len(th[c].files)
    /\ mode = "parallel" =>
          /\ \A t \in Threads :
                th[t].kind \in {"ingest", "task"} =>
                    /\ th[t].pc \in {"extract", "transform", "lock"} =>
                          th[t].acquired = 0
                    /\ th[t].pc = "lock" =>
                          /\ th[t].docs = TransformFileToDocuments(th[t].id, th[t].fi,
                                                                    th[t].files[th[t].fi])
                          /\ th[t].todo = RunTransformations(th[t].docs)
                    /\ (InCritical(t) \/ th[t].pc = "unlock" \/ Returned(t, "ingest")) =>
                          th[t].acquired = 1
          /\ \A c \in Callers : th[c].kind = "bulk" => th[c].acquired = 0
          /\ Cardinality({t \in Threads : th[t].pc = "persist"}) <= 1

\* C32 witness: under the parallelized strategy a direct ingest call and a
\* pooled ingest call are both in their transform and embed pass while a
\* third ingest call persists.
LockGranularityWitness ==
    /\ mode = "parallel"
    /\ \E t, u, v \in Threads :
          /\ th[t].kind = "ingest" /\ th[t].pc = "transform"
          /\ th[u].kind = "task" /\ th[u].pc = "transform"
          /\ th[v].kind = "task" /\ th[v].pc = "persist"

(* ------------------------------ re-ingestion --------------------------- *)

\* ingest(file_name, file_data) of a file that an earlier ingest call stored,
\* with a reader that gives the Documents the doc_ids it gave them then: the
\* store has the doc_id and the hash of every Document of the call.
CallIngestAgain(c, u) ==
    /\ Dispatch(c, Callers)
    /\ nextOp <= MaxOps
    /\ Returned(u, "ingest")
    /\ \A p \in 1..Len(th[u].ret) : HashIn(mem, th[u].ret[p])
    /\ Set(c, [Idle EXCEPT !.pc = "extract", !.kind = "ingest", !.id = th[u].id,
                           !.files = th[u].files, !.fi = 1, !.again = TRUE])
    /\ nextOp' = nextOp + 1
    /\ UNCHANGED <<component, helper, rd, lock, mem, vstore, disk, queue, unsaved>>

\* bulk_ingest(files) of the files of an earlier bulk_ingest call, in the
\* same way.
CallBulkAgain(c, u) ==
    /\ Dispatch(c, Callers)
    /\ nextOp <= MaxOps
    /\ Returned(u, "bulk")
    /\ \A p \in 1..Len(th[u].ret) : HashIn(mem, th[u].ret[p])
    /\ LET r == [Idle EXCEPT !.kind = "bulk", !.id = th[u].id,
                             !.files = th[u].files, !.again = TRUE,
                             !.results = [i \in 1..Len(th[u].files) |-> << >>]]
       IN  CASE mode = "simple" ->
                  /\ Set(c, [r EXCEPT !.pc = "extract", !.fi = 1])
                  /\ UNCHANGED queue
            []  mode = "batch" ->
                  /\ Set(c, [r EXCEPT !.pc = "pool_extract"])
                  /\ UNCHANGED queue
            []  OTHER ->
                  /\ Set(c, [r EXCEPT !.pc = "bulk_wait"])
                  /\ queue' = queue \o
                        [i \in 1..Len(th[u].files) |->
                            [owner |-> c, id |-> th[u].id, fi |-> i]]
    /\ nextOp' = nextOp + 1
    /\ UNCHANGED <<component, helper, rd, lock, mem, vstore, disk, unsaved>>

NextAgain ==
    \/ Next
    \/ \E c, u \in Callers : CallIngestAgain(c, u)
    \/ \E c, u \in Callers : CallBulkAgain(c, u)

SpecAgain == Init /\ [][NextAgain]_vars

\* The documents the with block of thread t is about: the document at hand
\* (simple) or all documents of the call (batch, parallel).
DocsAtHand(t) ==
    IF mode = "simple" THEN <<th[t].docs[th[t].di]>> ELSE th[t].docs

\* C33: whether or not the store has the doc_id and the hash of a document,
\* an ingest or bulk_ingest transforms and embeds every document it
\* extracted (the nodes it takes into the with block are the nodes of all
\* its documents), puts every one of these nodes into the vector store and
\* the document store before it records the hash, and returns every
\* document.
HashNeverConsulted ==
    \A t \in Threads :
        th[t].kind \in {"ingest", "bulk", "task"} =>
            /\ (mode # "simple" /\ th[t].pc = "lock") =>
                  /\ th[t].todo = RunTransformations(th[t].docs)
                  /\ Len(th[t].todo) >= Len(th[t].docs)
            /\ th[t].pc = "insert_node" =>
                  LET pass == RunTransformations(DocsAtHand(t))
                  IN  /\ th[t].todo # << >>
                      /\ th[t].todo = SubSeq(pass, Len(pass) - Len(th[t].todo) + 1,
                                             Len(pass))
            /\ th[t].pc = "set_hash" =>
                  LET pass == RunTransformations(DocsAtHand(t))
                  IN  \A p \in 1..Len(pass) :
                          /\ pass[p] \in vstore
                          /\ pass[p].id \in DOMAIN mem.nodes
                          /\ \E q \in 1..Len(mem.refDocs[pass[p].ref]) :
                                mem.refDocs[pass[p].ref][q] = pass[p].id
            /\ (th[t].kind # "task" /\ Returned(t, th[t].kind)) =>
                  /\ (th[t].kind = "ingest" \/ mode # "parallel") => th[t].acquired >= 1
                  /\ th[t].ret = IF th[t].again THEN Reload(ExpectedDocs(t))
                                                ELSE ExpectedDocs(t)

\* C33 witness: a call whose documents all have their doc_id and hash in the
\* store has inserted its nodes again: the document store holds, for each of
\* its documents, the nodes of the first ingestion and as many new ones.
HashNeverConsultedWitness ==
    \E t \in Callers :
        /\ th[t].again
        /\ th[t].pc = "persist"
        /\ \A d \in 1..Len(th[t].docs) :
              /\ HashIn(mem, th[t].docs[d])
              /\ Len(mem.refDocs[th[t].docs[d].id]) = 2 * th[t].docs[d].n


\* C34 (as claimed): once an ingest or bulk_ingest call has raised, the
\* in-memory store holds no node, no ref-doc entry and no hash of a document
\* of that call.
FailedCallLeavesNoTrace ==
    \A t \in Callers :
        (th[t].outcome = "raised" /\ th[t].kind \in {"ingest", "bulk"}) =>
            /\ \A n \in DOMAIN mem.nodes : n[1] # th[t].id
            /\ \A d \in DOMAIN mem.refDocs : d[1] # th[t].id
            /\ \A d \in DOMAIN mem.hashes : d[1] # th[t].id


\* C35 (as claimed): whenever no thread holds the index lock, the persisted
\* snapshot equals the in-memory store, also after a call that raised.
SnapshotMatchesMemory ==
    lock = NoThread => Persisted = mem


(* ---------------------------- empty documents -------------------------- *)

\* A file whose reader returns one Document without text (an empty text
\* file, a page without a text layer): the node parser cuts no node from it.
EmptyFile == <<0>>

NextEmpty ==
    \/ Next
    \/ \E c \in Callers : CallIngest(c, EmptyFile)

SpecEmpty == Init /\ [][NextEmpty]_vars

\* C36 (as claimed): when every ingest, bulk_ingest and delete call has
\* completed, the doc_ids with an entry in the hash map are the ref_doc_ids
\* of the nodes in the document store.
HashesMatchNodes ==
    Quiescent =>
        DOMAIN mem.hashes = {mem.nodes[n].ref : n \in DOMAIN mem.nodes}


(* ------------------------------- reporting ----------------------------- *)

\* IngestedDoc.from_document(document), called by ingest_file and bulk_ingest
\* of the service on every document the component returned:
\* curate_metadata pops the keys from document.metadata itself.  input is
\* the Document before the call; the Document of the call is the one in ret.
FromDocumentCall(t, p) ==
    /\ built = "built"
    /\ Quiescent
    /\ helper.name = "none"
    /\ th[t].kind \in {"ingest", "bulk"}
    /\ Returned(t, th[t].kind)
    /\ p \in 1..Len(th[t].ret)
    /\ helper' = [helper EXCEPT
                    !.name = "from_document",
                    !.input = th[t].ret[p],
                    !.output = [doc_id |-> th[t].ret[p].id,
                                doc_metadata |-> CurateMetadata(th[t].ret[p].metadata)],
                    !.calls = 1]
    /\ th' = [th EXCEPT ![t].ret[p].metadata = CurateMetadata(@)]
    /\ UNCHANGED <<component, lock, mem, vstore, disk, queue, nextOp, unsaved, rd>>

\* Operations, then calls of list_ingested or one from_document.
NextReport ==
    \/ NextList
    \/ \E t \in Callers : \E p \in 1..2 : FromDocumentCall(t, p)

SpecReport == Init /\ [][NextReport]_vars

\* C37 (as claimed): after list_ingested every ref-doc entry of the store
\* still has the doc_id in its metadata and the snapshot still equals the
\* store, two list_ingested calls in a row return the same, and
\* from_document leaves the Document it converts as it was.
ReportingLeavesDataUnchanged ==
    /\ helper.name = "list_ingested" =>
          /\ \A d \in DOMAIN mem.refMeta : "doc_id" \in DOMAIN mem.refMeta[d]
          /\ Persisted = mem
          /\ helper.calls = 2 => helper.output = helper.first
    /\ helper.name = "from_document" =>
          \E t \in Callers : \E p \in 1..Len(th[t].ret) : th[t].ret[p] = helper.input


(* ----------------------------- _ingest_data ---------------------------- *)

\* IngestService._ingest_data, the body of ingest_text and ingest_bin_data.
\* helper.arg[c] is the temporary file of the call running in thread c:
\* "none", "created" (NamedTemporaryFile(delete=False): an empty file),
\* "written" (the data is in it) or "removed"; helper.input[c] is the call:
\* "none", "running" or "ended" (it has returned or raised).
TmpFile(c) == IF helper.name = "_ingest_data" THEN helper.arg[c] ELSE "none"

IngestDataCall(c) == IF helper.name = "_ingest_data" THEN helper.input[c] ELSE "none"

SetTmp(c, file, call) ==
    helper' = [helper EXCEPT
                 !.name = "_ingest_data",
                 !.arg = [u \in Callers |-> IF u = c THEN file ELSE TmpFile(u)],
                 !.input = [u \in Callers |-> IF u = c THEN call ELSE IngestDataCall(u)]]

\* with tempfile.NamedTemporaryFile(delete=False) as tmp: the file is created.
IngestData(c, f) ==
    /\ Free(c)
    /\ IngestDataCall(c) # "running"
    /\ \A u \in Callers : u < c => ~(Free(u) /\ IngestDataCall(u) # "running")
    /\ nextOp <= MaxOps
    /\ Set(c, [Idle EXCEPT !.pc = "write", !.kind = "ingest", !.id = nextOp,
                           !.files = <<f>>, !.fi = 1])
    /\ SetTmp(c, "created", "running")
    /\ nextOp' = nextOp + 1
    /\ UNCHANGED <<component, rd, lock, mem, vstore, disk, queue, unsaved>>

\* path_to_tmp.write_bytes / write_text, then ingest_file calls
\* ingest_component.ingest(file_name, path_to_tmp).
WriteData(c) ==
    /\ th[c].pc = "write"
    /\ Set(c, [th[c] EXCEPT !.pc = "extract"])
    /\ SetTmp(c, "written", "running")
    /\ UNCHANGED <<component, rd, lock, mem, vstore, disk, queue, nextOp, unsaved>>

\* The write raises (no space left): ingest_file is not called.
WriteDataFail(c) ==
    /\ th[c].pc = "write"
    /\ NoFailureYet
    /\ Raise(c, 1, "write", NoFile)
    /\ UNCHANGED <<component, helper, rd, lock, mem, vstore, disk, queue, nextOp, unsaved>>

\* A finally block that runs only when ingest_file returned, for comparison.
CloseAndUnlinkOnSuccess(c) ==
    /\ IngestDataCall(c) = "running"
    /\ th[c].pc = "done"
    /\ SetTmp(c, IF th[c].outcome = "returned" THEN "removed" ELSE TmpFile(c), "ended")
    /\ UNCHANGED <<component, rd, lock, mem, vstore, disk, th, queue, nextOp, unsaved>>

\* finally: tmp.close(); path_to_tmp.unlink().  It runs when ingest_file has
\* returned and when it or the write has raised; then the call ends.
CloseAndUnlink(c) ==
    /\ IngestDataCall(c) = "running"
    /\ th[c].pc = "done"
    /\ SetTmp(c, "removed", "ended")
    /\ UNCHANGED <<component, rd, lock, mem, vstore, disk, th, queue, nextOp, unsaved>>

\* ingest_text / ingest_bin_data calls and the steps of the ingest calls
\* they make, with files that fail.
NextIngestData ==
    \/ \E c \in Callers, f \in IngestInputs : IngestData(c, f)
    \/ \E c \in Callers : WriteData(c)
    \/ \E c \in Callers : WriteDataFail(c)
    \/ \E c \in Callers : CloseAndUnlink(c)
    \/ \E t \in Callers : Extract(t)
    \/ \E t \in Callers, named \in BOOLEAN : ExtractFail(t, named)
    \/ \E t \in Callers : Transform(t)
    \/ \E t \in Callers : TransformFail(t, 1)
    \/ \E t \in Callers : Acquire(t)
    \/ \E t \in Callers : InsertDoc(t)
    \/ \E t \in Callers : InsertDocFail(t)
    \/ \E t \in Callers : InsertNode(t)
    \/ \E t \in Callers : SetHash(t)
    \/ \E t \in Callers, written \in BOOLEAN : CriticalFail(t, written)
    \/ \E t \in Callers : Persist(t)
    \/ \E t \in Callers : Release(t)

SpecIngestData == Init /\ [][NextIngestData]_vars

\* C38: the temporary file of an ingest_text / ingest_bin_data call exists
\* and holds the data in every step of the ingestion of the call (the
\* extraction, in the caller's thread or through the process pool, the
\* transform and embed pass, the wait for the lock and the with block), it
\* exists as long as the call runs, and it has been removed when the call
\* has ended, whether it returned or raised.
TmpFileLifetime ==
    \A c \in Callers :
        /\ th[c].pc \in {"extract", "transform", "lock", "unlock"} \/ InCritical(c)
              => TmpFile(c) = "written" /\ IngestDataCall(c) = "running"
        /\ th[c].pc = "write" => TmpFile(c) = "created"
        /\ IngestDataCall(c) = "running" => TmpFile(c) \in {"created", "written"}
        /\ IngestDataCall(c) = "ended" =>
              /\ TmpFile(c) = "removed"
              /\ th[c].pc = "done"
        /\ IngestDataCall(c) = "none" => TmpFile(c) = "none"

\* C38 witness: under the parallelized strategy one call has ended with an
\* exception of the extraction and another has ended normally; the
\* temporary files of both are removed.
TmpFileLifetimeWitness ==
    /\ mode = "parallel"
    /\ \E c, u \in Callers :
          /\ IngestDataCall(c) = "ended" /\ th[c].outcome = "raised"
          /\ th[c].error.stage = "extract"
          /\ IngestDataCall(u) = "ended" /\ th[u].outcome = "returned"
          /\ TmpFile(c) = "removed" /\ TmpFile(u) = "removed"


(* ------------------- the pools of the parallelized component ----------- *)

InitParallel == Init /\ mode = "parallel"

\* The processes of _file_to_documents_work_pool that are extracting.
Extracting == {t \in Threads : th[t].pc = "extracting"}

\* An extraction that needs a thread of _ingest_work_pool, the pool the
\* pooled ingest calls run in, for comparison.
ApplyBeginInIngestPool(t) ==
    /\ th[t].pc = "extract"
    /\ Cardinality(Extracting \cup {w \in ActivePool : ~Free(w)}) < countWorkers
    /\ Set(t, [th[t] EXCEPT !.pc = "extracting"])
    /\ UNCHANGED <<component, helper, rd, lock, mem, vstore, disk, queue, nextOp, unsaved>>

\* ParallelizedIngestComponent.ingest:
\* _file_to_documents_work_pool.apply(transform_file_to_documents, ...): the
\* calling thread waits until one of the count_workers processes is free;
\* that process then extracts the file.
ApplyBegin(t) ==
    /\ th[t].pc = "extract"
    /\ Cardinality(Extracting) < countWorkers
    /\ Set(t, [th[t] EXCEPT !.pc = "extracting"])
    /\ UNCHANGED <<component, helper, rd, lock, mem, vstore, disk, queue, nextOp, unsaved>>

\* The process returns the documents, apply returns them to the calling
\* thread and the process is free again.
ApplyEnd(t) ==
    /\ th[t].pc = "extracting"
    /\ Set(t, [th[t] EXCEPT
                !.docs = TransformFileToDocuments(th[t].id, th[t].fi,
                                                  th[t].files[th[t].fi]),
                !.pc = "transform"])
    /\ UNCHANGED <<component, helper, rd, lock, mem, vstore, disk, queue, nextOp, unsaved>>

\* The steps of the calls that have started.
Progress ==
    \/ \E w \in PoolThreads : TakeTask(w)
    \/ \E t \in Threads : ApplyBegin(t)
    \/ \E t \in Threads : ApplyEnd(t)
    \/ \E t \in Threads : Transform(t)
    \/ \E t \in Threads : Acquire(t)
    \/ \E t \in Threads : InsertNode(t)
    \/ \E t \in Threads : SetHash(t)
    \/ \E t \in Threads : DeleteBegin(t)
    \/ \E t \in Threads : DeleteNode(t)
    \/ \E t \in Threads : DeleteRefDoc(t)
    \/ \E t \in Threads : Persist(t)
    \/ \E t \in Threads : Release(t)
    \/ \E c \in Callers : BulkReturn(c)

NextParallel ==
    \/ \E c \in Callers, f \in IngestInputs : CallIngest(c, f)
    \/ \E c \in Callers, fs \in BulkInputs : CallBulk(c, fs)
    \/ \E c \in Callers, d \in DeleteTargets : CallDelete(c, d)
    \/ Progress

SpecParallel == InitParallel /\ [][NextParallel]_vars

\* C39: under the parallelized strategy, with one worker or more, the
\* pipeline is never stuck: as long as a call has not returned or a task is
\* queued, some started call can take a step (every call takes finitely
\* many steps, so every call returns); a thread that waits for the lock
\* waits for a thread inside its with block, a thread that waits for a
\* process waits for extractions that are running, and a bulk_ingest that
\* waits for its starmap has every unfinished file queued or in a pool
\* thread.
ParallelNeverStuck ==
    /\ (queue # << >> \/ \E t \in Threads : ~Free(t)) => ENABLED Progress
    /\ \A t \in Threads :
          /\ (th[t].pc = "lock" /\ lock # NoThread) =>
                InCritical(lock) \/ th[lock].pc = "unlock"
          /\ (th[t].pc = "extract" /\ Cardinality(Extracting) >= countWorkers) =>
                Cardinality(Extracting) = countWorkers
          /\ (th[t].pc = "bulk_wait") =>
                \A i \in 1..Len(th[t].files) :
                    \/ \E p \in 1..Len(th[t].completed) : th[t].completed[p] = i
                    \/ \E q \in 1..Len(queue) :
                          queue[q].owner = t /\ queue[q].fi = i
                    \/ \E w \in ActivePool :
                          th[w].kind = "task" /\ th[w].owner = t /\ th[w].fi = i

\* C39 witness: with one worker, a pooled ingest of a bulk_ingest of two
\* files is extracting in the only process, the other file is queued for the
\* only pool thread, and a direct ingest call waits for the process.
ParallelNeverStuckWitness ==
    /\ countWorkers = 1
    /\ Len(queue) = 1
    /\ \E c, u \in Callers, w \in PoolThreads :
          /\ th[c].pc = "bulk_wait"
          /\ th[w].pc = "extracting" /\ th[w].owner = c
          /\ th[u].kind = "ingest" /\ th[u].pc = "extract"

=============================================================================
